---- MODULE Spec2Model ----
(***************************************************************************)
(* Model of the dominion-swarm control plane: the Task state machine, the  *)
(* TaskManager, the Policy rule evaluator, the WorkflowRunner, the         *)
(* Orchestrator and the CircuitBreaker.                                    *)
(*                                                                         *)
(* Conventions                                                             *)
(*   - JavaScript null / undefined of a string field is the value NULL;    *)
(*     a null timestamp is NoTime (Date.now() is always >= 1 here).        *)
(*   - Task ids and run ids (uuid, nanoid) are the integers 1, 2, ...;    *)
(*     NoId is a null id.                                                  *)
(*   - A method that can throw is an operator returning a record with a    *)
(*     field threw and the object after the call.                          *)
(*   - Every component has its own specification (SpecTask, SpecTM, ...);  *)
(*     the variables of the other components stay at their initial value.  *)
(***************************************************************************)
EXTENDS Integers, Sequences, FiniteSets, TLC

\* ---------------------------------------------------------------------
\* Bounds of the model
\* ---------------------------------------------------------------------
MaxTime == 3
MaxMaxRetries == 2
MaxChildren == 1
MaxTasks == 2
MaxRuns == 2
MaxCalls == 2
MaxSteps == 3
MaxRules == 3
MaxCtorRules == 2
MaxThreshold == 3
MaxInFlight == 2
MaxMaxAttempts == 3
MaxAcquirers == 2
MaxMaxRequests == 2
MaxActions == 2
MaxBackoffAttempt == 5
MaxCancels == 3
MaxSegments == 3
MaxFamily == 3

\* ---------------------------------------------------------------------
\* Values
\* ---------------------------------------------------------------------
NULL == "null"
NoTime == 0
NoId == 0
UndefinedMaxRetries == 0 - 1
DefaultMaxRetries == 3

AgentIds == {"a1", "a2"}
Outputs == {"out1"}
Errors == {"e1", "e2"}
TaskTypes == {"observe:watch"}
Priorities == {"critical", "high", "normal", "low"}
TaskIds == 1..MaxTasks
RunIds == 1..MaxRuns

VARIABLES
    now,         \* the value Date.now() returns
    task,        \* SpecTask: one Task object
    taskCall,    \* SpecTask: the last method call made on task
    taskRetried, \* SpecTask: number of retry() calls that returned normally
    tm,          \* the TaskManager: tasks, tasksByRun and the tasks table
    tmCall,      \* SpecTM: the last TaskManager call and its outcome
    orch,        \* the Orchestrator: isRunning, currentRunId, its agents
    dbRuns,      \* the runs table
    calls,       \* SpecOrch: the runWorkflow invocations
    cancelCall,  \* SpecOrch: how many cancel() calls were made, the last one
    runner,      \* the WorkflowRunner: dryRun, approve, the registered plugins
    rdb,         \* the runs and tasks tables the WorkflowRunner writes
    rrun,        \* SpecRunner: the invocation of WorkflowRunner.run
    policy,      \* one Policy: rules, defaultAction
    pe,          \* SpecPolicy: the invocation of Policy.evaluate
    cb,          \* one CircuitBreaker: state, failures, lastFailureTime, ...
    cbCfg,       \* the options the CircuitBreaker was constructed with
    cbInFlight,  \* SpecCB: the guarded calls execute is awaiting
    cbLast,      \* SpecCB: what the last step of the breaker was
    cbConsec,    \* SpecCB: failures since the last success, close or reset
    cbProbes,    \* SpecCB: successes seen since the breaker became half-open
    cbTrials,    \* SpecCB: calls in flight that were admitted in half-open
    rtOpts,      \* the options of the withRetry call, defaults filled in
    rt,          \* SpecRetry: the invocation of withRetry
    rl,          \* one RateLimiter: requests, maxRequests, windowMs
    rlCalls,     \* SpecRL: the invocations of acquire
    rlLast,      \* SpecRL: the last step of the limiter and what it returned
    ap,          \* SpecAutopilot: the invocation of runAutopilot
    engine,      \* SpecEngine: the PolicyEngine
    ec,          \* SpecEngine: the evaluate or checkPermission call
    bo,          \* SpecBackoff: the last call of calculateBackoff
    tq,          \* SpecQuery: the last call of TaskManager.query
    cc,          \* SpecCustom: the last evaluation of a custom condition
    pr           \* SpecPreset: the last evaluation of the executor preset

taskVars == <<task, taskCall, taskRetried>>
tmVars == <<tm, tmCall>>
orchVars == <<orch, dbRuns, calls, cancelCall>>
runnerVars == <<runner, rdb, rrun>>
policyVars == <<policy, pe>>
cbVars == <<cb, cbCfg, cbInFlight, cbLast, cbConsec, cbProbes, cbTrials>>
retryVars == <<rtOpts, rt>>
rlVars == <<rl, rlCalls, rlLast>>
autopilotVars == <<ap>>
engineVars == <<engine, ec>>
backoffVars == <<bo>>
queryVars == <<tq>>
customVars == <<cc>>
presetVars == <<pr>>
vars == <<now, task, taskCall, taskRetried, tm, tmCall, orch, dbRuns, calls,
          cancelCall,
          runner, rdb, rrun, policy, pe, cb, cbCfg, cbInFlight, cbLast,
          cbConsec, cbProbes, cbTrials,
          rtOpts, rt,
          rl, rlCalls, rlLast,
          ap,
          engine, ec,
          bo,
          tq,
          cc,
          pr>>

\* what the actions of one component leave alone
exceptTask == <<now, tmVars, orchVars, runnerVars, policyVars, cbVars,
        retryVars, rlVars, autopilotVars, engineVars, backoffVars, queryVars,
        customVars, presetVars>>
exceptTM == <<now, taskVars, orchVars, runnerVars, policyVars, cbVars,
        retryVars, rlVars, autopilotVars, engineVars, backoffVars, queryVars,
        customVars, presetVars>>
exceptOrch == <<now, taskVars, tmCall, runnerVars, policyVars, cbVars,
        retryVars, rlVars, autopilotVars, engineVars, backoffVars, queryVars,
        customVars, presetVars>>
exceptOrchRun == <<now, cancelCall, taskVars, tmCall, runnerVars, policyVars,
        cbVars, retryVars, rlVars, autopilotVars, engineVars, backoffVars,
        queryVars, customVars, presetVars>>
exceptRunner == <<now, taskVars, tmVars, orchVars, policyVars, cbVars,
        retryVars, rlVars, autopilotVars, engineVars, backoffVars, queryVars,
        customVars, presetVars>>
exceptPolicy == <<now, taskVars, tmVars, orchVars, runnerVars, cbVars,
        retryVars, rlVars, autopilotVars, engineVars, backoffVars, queryVars,
        customVars, presetVars>>
exceptCB == <<now, taskVars, tmVars, orchVars, runnerVars, policyVars,
        retryVars, rlVars, autopilotVars, engineVars, backoffVars, queryVars,
        customVars, presetVars>>
exceptRetry == <<now, taskVars, tmVars, orchVars, runnerVars, policyVars,
        cbVars, rlVars, autopilotVars, engineVars, backoffVars, queryVars,
        customVars, presetVars>>
exceptCBTick == <<taskVars, tmVars, orchVars, runnerVars, policyVars,
        retryVars, rlVars, autopilotVars, engineVars, backoffVars, queryVars,
        customVars, presetVars>>
exceptRL == <<now, taskVars, tmVars, orchVars, runnerVars, policyVars,
        cbVars, retryVars, autopilotVars, engineVars, backoffVars, queryVars,
        customVars, presetVars>>
exceptRLTick == <<taskVars, tmVars, orchVars, runnerVars, policyVars, cbVars,
        retryVars, autopilotVars, engineVars, backoffVars, queryVars,
        customVars, presetVars>>
exceptAutopilot == <<now, taskVars, tmVars, orchVars, runnerVars, policyVars,
        cbVars, retryVars, rlVars, engineVars, backoffVars, queryVars,
        customVars, presetVars>>
exceptEngine == <<now, taskVars, tmVars, orchVars, runnerVars, policyVars,
        cbVars, retryVars, rlVars, autopilotVars, backoffVars, queryVars,
        customVars, presetVars>>
exceptBackoff == <<now, taskVars, tmVars, orchVars, runnerVars, policyVars,
        cbVars, retryVars, rlVars, autopilotVars, engineVars, queryVars,
        customVars, presetVars>>
exceptQuery == <<now, taskVars, tmVars, orchVars, runnerVars, policyVars,
        cbVars, retryVars, rlVars, autopilotVars, engineVars, backoffVars,
        customVars, presetVars>>
exceptQueryTM == <<now, taskVars, tmCall, orchVars, runnerVars, policyVars,
        cbVars, retryVars, rlVars, autopilotVars, engineVars, backoffVars,
        customVars, presetVars>>
exceptQueryTick == <<taskVars, tmVars, orchVars, runnerVars, policyVars,
        cbVars, retryVars, rlVars, autopilotVars, engineVars, backoffVars,
        customVars, presetVars>>
exceptCustom == <<now, taskVars, tmVars, orchVars, runnerVars, policyVars,
        cbVars, retryVars, rlVars, autopilotVars, engineVars, backoffVars,
        queryVars, presetVars>>
exceptPreset == <<now, taskVars, tmVars, orchVars, runnerVars, policyVars,
        cbVars, retryVars, rlVars, autopilotVars, engineVars, backoffVars,
        queryVars, customVars>>
exceptClock == <<taskVars, tmVars, orchVars, runnerVars, policyVars, cbVars,
        retryVars, rlVars, autopilotVars, engineVars, backoffVars, queryVars,
        customVars, presetVars>>

\* ---------------------------------------------------------------------
\* Task (src/unnamed/part_005)
\* ---------------------------------------------------------------------
NewTask(cfg, t) ==
    [ id          |-> cfg.id,
      runId       |-> cfg.runId,
      type        |-> cfg.type,
      parentId    |-> cfg.parentId,
      priority    |-> IF cfg.priority = NULL THEN "normal" ELSE cfg.priority,
      maxRetries  |-> IF cfg.maxRetries = UndefinedMaxRetries
                        THEN DefaultMaxRetries ELSE cfg.maxRetries,
      createdAt   |-> t,
      status      |-> "pending",
      agentId     |-> cfg.agentId,
      output      |-> NULL,
      error       |-> NULL,
      retries     |-> 0,
      children    |-> <<>>,
      startedAt   |-> NoTime,
      completedAt |-> NoTime ]

isTerminal(t) == t.status \in {"completed", "failed", "cancelled"}

canRetry(t) == t.retries < t.maxRetries /\ t.status = "failed"

queue(t) ==
    IF t.status # "pending"
      THEN [threw |-> TRUE, t |-> t]
      ELSE [threw |-> FALSE, t |-> [t EXCEPT !.status = "queued"]]

start(t, agentId, clock) ==
    IF t.status \notin {"pending", "queued"}
      THEN [threw |-> TRUE, t |-> t]
      ELSE [threw |-> FALSE,
            t |-> [t EXCEPT !.status = "running",
                            !.startedAt = clock,
                            !.agentId = IF agentId # NULL THEN agentId ELSE @]]

complete_AnyStatus(t, output, clock) ==
    [threw |-> FALSE,
     t |-> [t EXCEPT !.status = "completed",
                     !.output = output,
                     !.completedAt = clock]]

complete(t, output, clock) ==
    IF t.status # "running"
      THEN [threw |-> TRUE, t |-> t]
      ELSE [threw |-> FALSE,
            t |-> [t EXCEPT !.status = "completed",
                            !.output = output,
                            !.completedAt = clock]]

fail_CountsAsRetry(t, error, clock) ==
    IF t.status # "running"
      THEN [threw |-> TRUE, t |-> t]
      ELSE [threw |-> FALSE,
            t |-> [t EXCEPT !.status = "failed",
                            !.error = error,
                            !.retries = @ + 1,
                            !.completedAt = clock]]

fail_DropsError(t, error, clock) ==
    IF t.status # "running"
      THEN [threw |-> TRUE, t |-> t]
      ELSE [threw |-> FALSE,
            t |-> [t EXCEPT !.status = "failed",
                            !.completedAt = clock]]

fail(t, error, clock) ==
    IF t.status # "running"
      THEN [threw |-> TRUE, t |-> t]
      ELSE [threw |-> FALSE,
            t |-> [t EXCEPT !.status = "failed",
                            !.error = error,
                            !.completedAt = clock]]

cancel_NoTerminalCheck(t, clock) ==
    [threw |-> FALSE,
     t |-> [t EXCEPT !.status = "cancelled", !.completedAt = clock]]

cancel(t, clock) ==
    IF isTerminal(t)
      THEN [threw |-> TRUE, t |-> t]
      ELSE [threw |-> FALSE,
            t |-> [t EXCEPT !.status = "cancelled", !.completedAt = clock]]

retry_OffByOne(t) ==
    IF ~(t.retries <= t.maxRetries /\ t.status = "failed")
      THEN [threw |-> TRUE, t |-> t]
      ELSE [threw |-> FALSE,
            t |-> [t EXCEPT !.retries = @ + 1,
                            !.status = "pending",
                            !.error = NULL,
                            !.startedAt = NoTime,
                            !.completedAt = NoTime]]

retry(t) ==
    IF ~canRetry(t)
      THEN [threw |-> TRUE, t |-> t]
      ELSE [threw |-> FALSE,
            t |-> [t EXCEPT !.retries = @ + 1,
                            !.status = "pending",
                            !.error = NULL,
                            !.startedAt = NoTime,
                            !.completedAt = NoTime]]

Includes(seq, x) == \E i \in 1..Len(seq) : seq[i] = x

addChild(t, childId) ==
    IF Includes(t.children, childId) THEN t
    ELSE [t EXCEPT !.children = Append(@, childId)]

\* ---------------------------------------------------------------------
\* The clock
\* ---------------------------------------------------------------------
Tick(limit) ==
    /\ now < limit
    /\ now' = now + 1

\* ---------------------------------------------------------------------
\* SpecTask: every method of one Task, called in any order
\* ---------------------------------------------------------------------
TaskConfigs ==
    [ id : {1}, runId : {1}, type : TaskTypes, parentId : {NoId},
      agentId : {NULL, "a1"}, priority : {NULL},
      maxRetries : (0..MaxMaxRetries) \cup {UndefinedMaxRetries} ]

NoCall == [op |-> "none", pre |-> NewTask(CHOOSE c \in TaskConfigs : TRUE, 1),
           threw |-> FALSE, retriedBefore |-> 0]

InitTask ==
    /\ \E cfg \in TaskConfigs : task = NewTask(cfg, 1)
    /\ taskCall = NoCall
    /\ taskRetried = 0

Called(op, r) ==
    /\ task' = r.t
    /\ taskCall' = [op |-> op, pre |-> task, threw |-> r.threw,
                    retriedBefore |-> taskRetried]

TaskQueue ==
    /\ Called("queue", queue(task))
    /\ UNCHANGED taskRetried

TaskStart ==
    /\ \E a \in AgentIds \cup {NULL} : Called("start", start(task, a, now))
    /\ UNCHANGED taskRetried

TaskComplete ==
    /\ \E o \in Outputs : Called("complete", complete(task, o, now))
    /\ UNCHANGED taskRetried

TaskFail ==
    /\ \E e \in Errors : Called("fail", fail(task, e, now))
    /\ UNCHANGED taskRetried

TaskCancel ==
    /\ Called("cancel", cancel(task, now))
    /\ UNCHANGED taskRetried

TaskRetry ==
    /\ Called("retry", retry(task))
    /\ taskRetried' = IF retry(task).threw THEN taskRetried ELSE taskRetried + 1

TaskAddChild ==
    /\ Len(task.children) < MaxChildren
    /\ Called("addChild", [threw |-> FALSE, t |-> addChild(task, 2)])
    /\ UNCHANGED taskRetried

NextTask ==
    \/ (TaskQueue /\ UNCHANGED exceptTask)
    \/ (TaskStart /\ UNCHANGED exceptTask)
    \/ (TaskComplete /\ UNCHANGED exceptTask)
    \/ (TaskFail /\ UNCHANGED exceptTask)
    \/ (TaskCancel /\ UNCHANGED exceptTask)
    \/ (TaskRetry /\ UNCHANGED exceptTask)
    \/ (TaskAddChild /\ UNCHANGED exceptTask)
    \/ (Tick(MaxTime) /\ UNCHANGED exceptClock)

\* ---------------------------------------------------------------------
\* TaskManager (core/policy/policy.ts, lines 320-606) and the tasks table
\* ---------------------------------------------------------------------
\* JSON.stringify of a task output
Stringify(o) == [json |-> o]

\* TasksRepository.create: the row starts 'pending' whatever the caller says
DbCreateTask(db, in) ==
    (in.id :> [ runId       |-> in.runId,
                parentId    |-> in.parentId,
                agentId     |-> in.agentId,
                status      |-> "pending",
                output      |-> NULL,
                error       |-> NULL,
                retries     |-> 0,
                maxRetries  |-> in.maxRetries,
                startedAt   |-> NoTime,
                completedAt |-> NoTime ]) @@ db

\* TasksRepository.update with every field of UpdateTaskInput given
DbUpdateTask(db, id, in) ==
    IF id \notin DOMAIN db THEN db
    ELSE [db EXCEPT ![id] = [@ EXCEPT !.status = in.status,
                                      !.agentId = in.agentId,
                                      !.output = in.output,
                                      !.error = in.error,
                                      !.retries = in.retries,
                                      !.startedAt = in.startedAt,
                                      !.completedAt = in.completedAt]]

syncToDb_StatusOnly(m, t) ==
    [m EXCEPT !.db = IF t.id \in DOMAIN m.db
                       THEN [m.db EXCEPT ![t.id].status = t.status]
                       ELSE m.db]

syncToDb(m, t) ==
    [m EXCEPT !.db = DbUpdateTask(m.db, t.id,
        [ status      |-> t.status,
          agentId     |-> t.agentId,
          output      |-> IF t.output # NULL THEN Stringify(t.output) ELSE NULL,
          error       |-> t.error,
          retries     |-> t.retries,
          startedAt   |-> t.startedAt,
          completedAt |-> t.completedAt ])]

\* this.tasks.set(task.id, task) for a task already in the map
PutTask(m, t) == [m EXCEPT !.tasks = [@ EXCEPT ![t.id] = t]]

createTask(m, cfg, clock) ==
    LET t  == NewTask(cfg, clock)
        m1 == [m EXCEPT !.tasks = (t.id :> t) @@ @,
                        !.order = Append(@, t.id),
                        !.tasksByRun =
                            IF t.runId \in DOMAIN @
                              THEN [@ EXCEPT ![t.runId] = Append(@, t.id)]
                              ELSE (t.runId :> <<t.id>>) @@ @]
        m2 == IF t.parentId # NoId /\ t.parentId \in DOMAIN m1.tasks
                THEN PutTask(m1, addChild(m1.tasks[t.parentId], t.id))
                ELSE m1
    IN  [m2 EXCEPT !.db = DbCreateTask(@,
            [id |-> t.id, runId |-> t.runId, parentId |-> t.parentId,
             agentId |-> t.agentId, maxRetries |-> t.maxRetries])]

getTasksByRun(m, runId) ==
    IF runId \notin DOMAIN m.tasksByRun THEN <<>>
    ELSE SelectSeq(m.tasksByRun[runId], LAMBDA id : id \in DOMAIN m.tasks)

\* queueTask, startTask, completeTask, failTask, retryTask: look the task up,
\* delegate to the Task method r, mirror the task to the table
Transition(m, taskId, r) ==
    IF taskId \notin DOMAIN m.tasks THEN [threw |-> TRUE, m |-> m]
    ELSE IF r.threw THEN [threw |-> TRUE, m |-> m]
    ELSE [threw |-> FALSE, m |-> syncToDb(PutTask(m, r.t), r.t)]

TaskOr(m, taskId) ==
    IF taskId \in DOMAIN m.tasks THEN m.tasks[taskId]
    ELSE NewTask([id |-> taskId, runId |-> 1, type |-> NULL, parentId |-> NoId,
                  agentId |-> NULL, priority |-> NULL, maxRetries |-> 0], 1)

queueTask(m, taskId) == Transition(m, taskId, queue(TaskOr(m, taskId)))

startTask(m, taskId, agentId, clock) ==
    Transition(m, taskId, start(TaskOr(m, taskId), agentId, clock))

completeTask(m, taskId, output, clock) ==
    Transition(m, taskId, complete(TaskOr(m, taskId), output, clock))

failTask(m, taskId, error, clock) ==
    Transition(m, taskId, fail(TaskOr(m, taskId), error, clock))

retryTask(m, taskId) == Transition(m, taskId, retry(TaskOr(m, taskId)))

RECURSIVE cancelTask(_, _, _)
RECURSIVE CancelChildren(_, _, _, _)

\* the loop of cancelTask over task.children, from index i on
CancelChildren(m, kids, i, clock) ==
    IF i > Len(kids) THEN [threw |-> FALSE, m |-> m]
    ELSE IF kids[i] \in DOMAIN m.tasks /\ ~isTerminal(m.tasks[kids[i]])
      THEN LET r == cancelTask(m, kids[i], clock)
           IN  IF r.threw THEN r ELSE CancelChildren(r.m, kids, i + 1, clock)
      ELSE CancelChildren(m, kids, i + 1, clock)

cancelTask(m, taskId, clock) ==
    IF taskId \notin DOMAIN m.tasks THEN [threw |-> TRUE, m |-> m]
    ELSE LET r == cancel(m.tasks[taskId], clock)
         IN  IF r.threw THEN [threw |-> TRUE, m |-> m]
             ELSE CancelChildren(syncToDb(PutTask(m, r.t), r.t),
                                 r.t.children, 1, clock)

RECURSIVE CancelRunLoop(_, _, _, _, _)

\* the loop of cancelRunTasks over the tasks of the run, from index i on
CancelRunLoop(m, ids, i, cancelled, clock) ==
    IF i > Len(ids) THEN [m |-> m, ret |-> cancelled]
    ELSE LET t == m.tasks[ids[i]]
         IN  IF ~isTerminal(t)
               THEN LET c == cancel(t, clock).t
                    IN  CancelRunLoop(syncToDb(PutTask(m, c), c), ids, i + 1,
                                      cancelled + 1, clock)
               ELSE CancelRunLoop(m, ids, i + 1, cancelled, clock)

cancelRunTasks(m, runId, clock) ==
    CancelRunLoop(m, getTasksByRun(m, runId), 1, 0, clock)

\* a runId or parentId of TaskQuery that is left out; the other fields left
\* out are NULL, and a limit left out is 0
UndefinedFilter == 0 - 1

NoQuery ==
    [ runId |-> UndefinedFilter, status |-> NULL, type |-> NULL,
      agentId |-> NULL, parentId |-> UndefinedFilter, priority |-> NULL,
      limit |-> 0 ]

\* the filters of query: a filter that is left out keeps every task
QueryFilter(q, t) ==
    /\ q.runId # UndefinedFilter => t.runId = q.runId
    /\ q.status # NULL => t.status = q.status
    /\ q.type # NULL => t.type = q.type
    /\ q.agentId # NULL => t.agentId = q.agentId
    /\ q.parentId # UndefinedFilter => t.parentId = q.parentId
    /\ q.priority # NULL => t.priority = q.priority

priorityOrder == [critical |-> 0, high |-> 1, normal |-> 2, low |-> 3]

\* the comparator given to tasks.sort
CompareTasks_NewestFirst(a, b) ==
    LET priorityDiff == priorityOrder[a.priority] - priorityOrder[b.priority]
    IN  IF priorityDiff # 0 THEN priorityDiff ELSE b.createdAt - a.createdAt

CompareTasks(a, b) ==
    LET priorityDiff == priorityOrder[a.priority] - priorityOrder[b.priority]
    IN  IF priorityDiff # 0 THEN priorityDiff ELSE a.createdAt - b.createdAt

\* Array.prototype.sort, which is stable: the task goes behind every task
\* that does not compare greater
InsertTask(m, sorted, id) ==
    LET before == {i \in 1..Len(sorted) :
                     CompareTasks(m.tasks[sorted[i]], m.tasks[id]) <= 0}
        k == IF before = {} THEN 0
             ELSE CHOOSE i \in before : \A j \in before : j <= i
    IN  SubSeq(sorted, 1, k) \o <<id>> \o SubSeq(sorted, k + 1, Len(sorted))

RECURSIVE SortTasks(_, _)
SortTasks(m, ids) ==
    IF ids = <<>> THEN <<>>
    ELSE InsertTask(m, SortTasks(m, SubSeq(ids, 1, Len(ids) - 1)),
                    ids[Len(ids)])

\* query: the ids of the tasks it returns, in the order of the array
query(m, q) ==
    LET tasks == SelectSeq(m.order, LAMBDA id : QueryFilter(q, m.tasks[id]))
        sorted == SortTasks(m, tasks)
    IN  IF q.limit # 0 /\ q.limit < Len(sorted)
          THEN SubSeq(sorted, 1, q.limit) ELSE sorted

getFailedTasks_AllRuns(m, runId) ==
    query(m, [NoQuery EXCEPT !.status = "failed"])

getFailedTasks(m, runId) ==
    query(m, [NoQuery EXCEPT !.runId = runId, !.status = "failed"])

RECURSIVE RetryFailedLoop(_, _, _, _)

\* the loop of retryFailedTasks over the failed tasks, from index i on
RetryFailedLoop(m, ids, i, retried) ==
    IF i > Len(ids) THEN [m |-> m, ret |-> retried]
    ELSE LET t == m.tasks[ids[i]]
         IN  IF canRetry(t)
               THEN LET r == retry(t).t
                    IN  RetryFailedLoop(syncToDb(PutTask(m, r), r), ids, i + 1,
                                        retried + 1)
               ELSE RetryFailedLoop(m, ids, i + 1, retried)

retryFailedTasks(m, runId) ==
    RetryFailedLoop(m, getFailedTasks(m, runId), 1, 0)

\* ---------------------------------------------------------------------
\* SpecTM: the methods of one TaskManager, called in any order
\* ---------------------------------------------------------------------
EmptyMap == [x \in {} |-> NULL]

NewTaskManager ==
    [ tasks      |-> EmptyMap,
      order      |-> <<>>,
      tasksByRun |-> EmptyMap,
      db         |-> EmptyMap ]

NoTMCall == [op |-> "none", arg |-> NoId, threw |-> FALSE, ret |-> 0]

InitTM ==
    /\ tm = NewTaskManager
    /\ tmCall = NoTMCall

\* uuidv4(): an id no task has
FreshTaskId(m) == Cardinality(DOMAIN m.tasks) + 1

TMCalled(op, arg, r) ==
    /\ tm' = r.m
    /\ tmCall' = IF r.threw
                   THEN [op |-> op, arg |-> NoId, threw |-> TRUE, ret |-> 0]
                   ELSE [op |-> op, arg |-> arg, threw |-> FALSE, ret |-> 0]

TMCreateTask ==
    /\ FreshTaskId(tm) <= MaxTasks
    /\ \E run \in RunIds, parent \in DOMAIN tm.tasks \cup {NoId},
          mr \in {1} :
         TMCalled("createTask", FreshTaskId(tm),
             [threw |-> FALSE,
              m |-> createTask(tm, [id |-> FreshTaskId(tm), runId |-> run,
                                    type |-> "observe:watch",
                                    parentId |-> parent, agentId |-> NULL,
                                    priority |-> NULL, maxRetries |-> mr],
                               now)])

TMQueueTask ==
    \E id \in TaskIds : TMCalled("queueTask", id, queueTask(tm, id))

TMStartTask ==
    \E id \in TaskIds, a \in {"a1"} :
        TMCalled("startTask", id, startTask(tm, id, a, now))

TMCompleteTask ==
    \E id \in TaskIds, o \in Outputs :
        TMCalled("completeTask", id, completeTask(tm, id, o, now))

TMFailTask ==
    \E id \in TaskIds :
        TMCalled("failTask", id, failTask(tm, id, "e1", now))

TMCancelTask ==
    \E id \in TaskIds : TMCalled("cancelTask", id, cancelTask(tm, id, now))

TMRetryTask ==
    \E id \in TaskIds : TMCalled("retryTask", id, retryTask(tm, id))

TMCancelRunTasks ==
    \E run \in RunIds :
        LET r == cancelRunTasks(tm, run, now)
        IN  /\ tm' = r.m
            /\ tmCall' = [op |-> "cancelRunTasks", arg |-> run,
                          threw |-> FALSE, ret |-> r.ret]

TMRetryFailedTasks ==
    \E run \in RunIds :
        LET r == retryFailedTasks(tm, run)
        IN  /\ tm' = r.m
            /\ tmCall' = [op |-> "retryFailedTasks", arg |-> run,
                          threw |-> FALSE, ret |-> r.ret]

NextTM ==
    \/ (TMCreateTask /\ UNCHANGED exceptTM)
    \/ (TMQueueTask /\ UNCHANGED exceptTM)
    \/ (TMStartTask /\ UNCHANGED exceptTM)
    \/ (TMCompleteTask /\ UNCHANGED exceptTM)
    \/ (TMFailTask /\ UNCHANGED exceptTM)
    \/ (TMCancelTask /\ UNCHANGED exceptTM)
    \/ (TMRetryTask /\ UNCHANGED exceptTM)
    \/ (TMCancelRunTasks /\ UNCHANGED exceptTM)
    \/ (TMRetryFailedTasks /\ UNCHANGED exceptTM)


\* ---------------------------------------------------------------------
\* Orchestrator (core/orchestrator/orchestrator.ts)
\* ---------------------------------------------------------------------
\* config.workflows: the plugin of every step, in declaration order
OrchWorkflows ==
    [ w1 |-> <<"observe", "analyze">>,
      w2 |-> <<"analyze", "execute">> ]

WorkflowIds == {"w1", "w2", "unknown"}

NewOrchestrator(cfgAgents) ==
    [ isRunning    |-> FALSE,
      currentRunId |-> NoId,
      cfgAgents    |-> cfgAgents,  \* config.agents is not empty
      agents       |-> FALSE ]     \* agentManager holds the configured agents

NoSummary == [tasksTotal |-> 0, tasksCompleted |-> 0, tasksFailed |-> 0]

NoResult == [runId |-> NoId, status |-> NULL, summary |-> NoSummary, errors |-> <<>>]

IdleCall ==
    [ pc |-> "idle", wf |-> NULL, runId |-> NoId, step |-> 0, taskId |-> NoId,
      threw |-> FALSE, status |-> "running", errors |-> <<>>,
      summary |-> NoSummary, result |-> NoResult ]

NoCancelCall == [n |-> 0, threw |-> FALSE]

InitOrch ==
    /\ \E a \in BOOLEAN : orch = NewOrchestrator(a)
    /\ dbRuns = EmptyMap
    /\ calls = [i \in 1..MaxCalls |-> IdleCall]
    /\ cancelCall = NoCancelCall

\* nanoid(): an id no run has
FreshRunId == Cardinality(DOMAIN dbRuns) + 1

\* RunsRepository.create
DbCreateRun(db, id, workflowId) ==
    (id :> [workflowId |-> workflowId, status |-> "pending",
            summary |-> NoSummary, startedAt |-> NoTime, completedAt |-> NoTime]) @@ db

\* Orchestrator.generateSummary: the counts read from the tasks table
OrchSummary(m, runId) ==
    LET rows == {id \in DOMAIN m.db : m.db[id].runId = runId}
    IN  [ tasksTotal     |-> Cardinality(rows),
          tasksCompleted |-> Cardinality({id \in rows : m.db[id].status = "completed"}),
          tasksFailed    |-> Cardinality({id \in rows : m.db[id].status = "failed"}) ]

\* executeStep up to its await: createTask, startTask, executePluginAction
BeginStep(m, runId, plugin, clock) ==
    LET id == FreshTaskId(m)
        m1 == createTask(m, [id |-> id, runId |-> runId, type |-> plugin,
                             parentId |-> NoId, agentId |-> NULL,
                             priority |-> "normal",
                             maxRetries |-> UndefinedMaxRetries], clock)
    IN  [m |-> startTask(m1, id, NULL, clock).m, taskId |-> id]

\* the finally block and the call of generateSummary, up to its await
Finish(c, status, errors) ==
    /\ orch' = [orch EXCEPT !.isRunning = FALSE, !.currentRunId = NoId]
    /\ calls' = [calls EXCEPT ![c] =
          [@ EXCEPT !.pc = "awaitSummary", !.status = status,
                    !.errors = errors, !.taskId = NoId,
                    !.summary = OrchSummary(tm', calls[c].runId)]]

\* the for loop entering step k, or leaving the loop after the last step
EnterStep(c, m, k, errors) ==
    LET steps == OrchWorkflows[calls[c].wf]
    IN  IF k > Len(steps)
          THEN /\ tm' = m
               /\ Finish(c, "completed", errors)
               /\ UNCHANGED dbRuns
          ELSE LET b == BeginStep(m, calls[c].runId, steps[k], now)
               IN  /\ tm' = b.m
                   /\ calls' = [calls EXCEPT ![c] =
                         [@ EXCEPT !.pc = "awaitPlugin", !.step = k,
                                   !.taskId = b.taskId, !.threw = FALSE,
                                   !.errors = errors]]
                   /\ UNCHANGED <<orch, dbRuns>>

OrchRunWorkflow_CreatesRunFirst(c) ==
    /\ calls[c].pc = "idle"
    /\ c > 1 => calls[c - 1].pc # "idle"
    /\ \E wf \in WorkflowIds :
         /\ dbRuns' = DbCreateRun(dbRuns, FreshRunId, wf)
         /\ calls' = [calls EXCEPT ![c] =
               [@ EXCEPT !.pc = "rejected", !.wf = wf,
                         !.errors = IF orch.isRunning
                                      THEN <<"already running">>
                                      ELSE <<"not found">>]]
         /\ UNCHANGED <<orch, tm>>

\* runWorkflow from its call to `await this.initializeAgents()`
OrchRunWorkflow(c) ==
    /\ calls[c].pc = "idle"
    /\ c > 1 => calls[c - 1].pc # "idle"
    /\ \E wf \in WorkflowIds :
         IF orch.isRunning
           THEN /\ calls' = [calls EXCEPT ![c] =
                      [@ EXCEPT !.pc = "rejected", !.wf = wf,
                                !.errors = <<"already running">>]]
                /\ UNCHANGED <<orch, dbRuns, tm>>
         ELSE IF wf \notin DOMAIN OrchWorkflows
           THEN /\ calls' = [calls EXCEPT ![c] =
                      [@ EXCEPT !.pc = "rejected", !.wf = wf,
                                !.errors = <<"not found">>]]
                /\ UNCHANGED <<orch, dbRuns, tm>>
         ELSE LET runId == FreshRunId
                  initThrows == orch.cfgAgents /\ orch.agents
              IN  /\ orch' = [orch EXCEPT !.isRunning = TRUE,
                                          !.currentRunId = runId,
                                          !.agents = @ \/ orch.cfgAgents]
                  /\ dbRuns' = [DbCreateRun(dbRuns, runId, wf) EXCEPT
                                   ![runId].status = "running",
                                   ![runId].startedAt = now]
                  /\ calls' = [calls EXCEPT ![c] =
                        [@ EXCEPT !.pc = "awaitInit", !.wf = wf,
                                  !.runId = runId, !.threw = initThrows]]
                  /\ UNCHANGED tm

\* runWorkflow resumed after initializeAgents
OrchAfterInit(c) ==
    /\ calls[c].pc = "awaitInit"
    /\ IF calls[c].threw
         THEN /\ tm' = tm
              /\ Finish(c, "failed", <<"agent exists">>)
              /\ UNCHANGED dbRuns
         ELSE EnterStep(c, tm, 1, <<>>)

OrchAfterPlugin_LeavesRunning(c) ==
    /\ calls[c].pc = "awaitPlugin"
    /\ tm' = tm
    /\ calls' = [calls EXCEPT ![c] = [@ EXCEPT !.pc = "awaitStep", !.threw = FALSE]]
    /\ UNCHANGED <<orch, dbRuns>>

\* executeStep resumed after executePluginAction: completeTask, and failTask
\* in the catch block; either may throw
OrchAfterPlugin(c) ==
    /\ calls[c].pc = "awaitPlugin"
    /\ LET done == completeTask(tm, calls[c].taskId, "out1", now)
           failed == failTask(tm, calls[c].taskId, "e1", now)
       IN  /\ tm' = IF done.threw THEN failed.m ELSE done.m
           /\ calls' = [calls EXCEPT ![c] =
                 [@ EXCEPT !.pc = "awaitStep", !.threw = done.threw]]
    /\ UNCHANGED <<orch, dbRuns>>

\* runWorkflow resumed after executeStep: the catch blocks and the next step
OrchAfterStep(c) ==
    /\ calls[c].pc = "awaitStep"
    /\ LET plugin == OrchWorkflows[calls[c].wf][calls[c].step]
           errs == Append(calls[c].errors, <<"step failed", plugin>>)
       IN  IF ~calls[c].threw
             THEN EnterStep(c, tm, calls[c].step + 1, calls[c].errors)
           ELSE IF plugin = "observe"
             THEN /\ tm' = tm
                  /\ Finish(c, "failed", Append(errs, <<"thrown", plugin>>))
                  /\ UNCHANGED dbRuns
           ELSE EnterStep(c, tm, calls[c].step + 1, errs)

\* runWorkflow resumed after generateSummary: the run record and the result
OrchReturn(c) ==
    /\ calls[c].pc = "awaitSummary"
    /\ dbRuns' = [dbRuns EXCEPT ![calls[c].runId] =
          [@ EXCEPT !.status = calls[c].status, !.completedAt = now,
                    !.summary = calls[c].summary]]
    /\ calls' = [calls EXCEPT ![c] =
          [@ EXCEPT !.pc = "returned",
                    !.result = [runId |-> calls[c].runId,
                                status |-> calls[c].status,
                                summary |-> calls[c].summary,
                                errors |-> calls[c].errors]]]
    /\ UNCHANGED <<orch, tm>>

OrchCancel_ThrowsWhenIdle ==
    /\ cancelCall.n < MaxCancels
    /\ cancelCall' = [n |-> cancelCall.n + 1,
                      threw |-> ~orch.isRunning \/ orch.currentRunId = NoId]
    /\ IF ~orch.isRunning \/ orch.currentRunId = NoId
         THEN UNCHANGED <<orch, dbRuns, calls, tm>>
         ELSE /\ tm' = cancelRunTasks(tm, orch.currentRunId, now).m
              /\ dbRuns' = [dbRuns EXCEPT ![orch.currentRunId] =
                    [@ EXCEPT !.status = "cancelled", !.completedAt = now]]
              /\ orch' = [orch EXCEPT !.isRunning = FALSE, !.currentRunId = NoId]
              /\ UNCHANGED calls

OrchCancel ==
    /\ cancelCall.n < MaxCancels
    /\ cancelCall' = [n |-> cancelCall.n + 1, threw |-> FALSE]
    /\ IF ~orch.isRunning \/ orch.currentRunId = NoId
         THEN UNCHANGED <<orch, dbRuns, calls, tm>>
         ELSE /\ tm' = cancelRunTasks(tm, orch.currentRunId, now).m
              /\ dbRuns' = [dbRuns EXCEPT ![orch.currentRunId] =
                    [@ EXCEPT !.status = "cancelled", !.completedAt = now]]
              /\ orch' = [orch EXCEPT !.isRunning = FALSE, !.currentRunId = NoId]
              /\ UNCHANGED calls

NextOrch ==
    \/ \E c \in 1..MaxCalls : (OrchRunWorkflow(c) /\ UNCHANGED exceptOrchRun)
    \/ \E c \in 1..MaxCalls : (OrchAfterInit(c) /\ UNCHANGED exceptOrchRun)
    \/ \E c \in 1..MaxCalls : (OrchAfterPlugin(c) /\ UNCHANGED exceptOrchRun)
    \/ \E c \in 1..MaxCalls : (OrchAfterStep(c) /\ UNCHANGED exceptOrchRun)
    \/ \E c \in 1..MaxCalls : (OrchReturn(c) /\ UNCHANGED exceptOrchRun)
    \/ (OrchCancel /\ UNCHANGED exceptOrch)

\* ---------------------------------------------------------------------
\* WorkflowRunner (workflows/runner.ts)
\* ---------------------------------------------------------------------
Plugins == {"observe", "analyze"}

\* what plugin.execute can do: resolve with success, resolve with
\* success:false, or throw
Outcomes == {"ok", "fail", "throw"}

RECURSIVE SeqsUpTo(_, _)
SeqsUpTo(S, n) ==
    IF n = 0 THEN {<<>>}
    ELSE LET shorter == SeqsUpTo(S, n - 1)
         IN  shorter \cup {Append(q, x) : q \in shorter, x \in S}

\* config.workflows: a workflow is identified with the plugins of its steps
RunnerWorkflows == SeqsUpTo(Plugins, MaxSteps)

UnknownWorkflow == <<"unknown">>

NewRunner(dryRun, approve, registered) ==
    [dryRun |-> dryRun, approve |-> approve, registered |-> registered]

\* the constructor: options.dryRun ?? config.general.dryRun and
\* options.approve ?? false, the options being "true", "false" or NULL
WorkflowRunner(options, configDryRun, registered) ==
    NewRunner(IF options.dryRun = NULL THEN configDryRun
                                       ELSE options.dryRun = "true",
              IF options.approve = NULL THEN FALSE
                                        ELSE options.approve = "true",
              registered)

RunnerOptions == [dryRun : {"true", "false", NULL},
                  approve : {"true", "false", NULL}]

effectiveDryRun_IgnoresApprove(rn) == rn.dryRun

\* const effectiveDryRun = this.dryRun && !this.approve
effectiveDryRun(rn) == rn.dryRun /\ ~rn.approve

NewDb == [runs |-> EmptyMap, tasks |-> EmptyMap]

NoRunnerSummary == [stepsCompleted |-> 0, stepsFailed |-> 0]

IdleRun ==
    [ pc |-> "idle", wf |-> <<>>, runId |-> NoId, step |-> 0, taskId |-> NoId,
      status |-> "completed", stepResults |-> <<>>, errors |-> <<>>,
      pending |-> [plugin |-> NULL, status |-> NULL, error |-> NULL],
      ctx |-> [runId |-> NoId, taskId |-> NoId, dryRun |-> FALSE],
      attempted |-> <<>>,  \* the steps executeStep was called for
      outcomes |-> <<>>,   \* what happened to each of them
      result |-> [status |-> NULL, steps |-> <<>>,
                  summary |-> NoRunnerSummary, errors |-> <<>>] ]

InitRunner ==
    /\ \E options \in RunnerOptions, configDryRun \in BOOLEAN,
          reg \in SUBSET Plugins :
          runner = WorkflowRunner(options, configDryRun, reg)
    /\ rdb = NewDb
    /\ rrun = IdleRun

\* the failure of which plugin aborts the run
IsCritical_Never(plugin) == FALSE

IsCritical(plugin) == plugin = "observe"

RunnerSummary_AllCompleted(steps) ==
    [ stepsCompleted |-> Len(steps), stepsFailed |-> 0 ]

\* WorkflowRunner.generateSummary: the step counts
RunnerSummary(steps) ==
    [ stepsCompleted |-> Cardinality({i \in 1..Len(steps) : steps[i].status = "completed"}),
      stepsFailed    |-> Cardinality({i \in 1..Len(steps) : steps[i].status = "failed"}) ]

\* the end of run: summary, the run record, the result
RunnerFinish(r, db, status) ==
    LET summary == RunnerSummary(r.stepResults)
    IN  /\ rdb' = [db EXCEPT !.runs[r.runId] =
              [@ EXCEPT !.status = status, !.completedAt = now,
                        !.summary = summary]]
        /\ rrun' = [r EXCEPT !.pc = "returned", !.status = status,
                             !.taskId = NoId,
                             !.result = [status |-> status,
                                         steps |-> r.stepResults,
                                         summary |-> summary,
                                         errors |-> r.errors]]

\* executeStep for step k up to its first await: the task row, the plugin
\* lookup, the call of plugin.execute
RunnerEnterStep(r, db, k) ==
    IF k > Len(r.wf)
      THEN RunnerFinish(r, db, r.status)
      ELSE LET plugin == r.wf[k]
               taskId == Cardinality(DOMAIN db.tasks) + 1
               row == [runId |-> r.runId, type |-> plugin, status |-> "running",
                       output |-> NULL, error |-> NULL,
                       startedAt |-> now, completedAt |-> NoTime]
               r1 == [r EXCEPT !.step = k, !.taskId = taskId,
                               !.attempted = Append(@, k)]
           IN  IF plugin \notin runner.registered
                 THEN /\ rdb' = [db EXCEPT !.tasks = (taskId :>
                            [row EXCEPT !.status = "failed",
                                        !.error = "Plugin not found",
                                        !.completedAt = now]) @@ @]
                      /\ rrun' = [r1 EXCEPT !.pc = "awaitStep",
                            !.outcomes = Append(@, "missing"),
                            !.pending = [plugin |-> plugin, status |-> "failed",
                                         error |-> "Plugin not found"]]
                 ELSE /\ rdb' = [db EXCEPT !.tasks = (taskId :> row) @@ @]
                      /\ rrun' = [r1 EXCEPT !.pc = "awaitExecute",
                            !.ctx = [runId |-> r.runId, taskId |-> taskId,
                                     dryRun |-> effectiveDryRun(runner)]]

\* run from its call to the first await
RunnerRun ==
    /\ rrun.pc = "idle"
    /\ \E wf \in RunnerWorkflows \cup {UnknownWorkflow} :
         IF wf \notin RunnerWorkflows
           THEN /\ rrun' = [rrun EXCEPT !.pc = "rejected", !.wf = wf]
                /\ UNCHANGED rdb
           ELSE LET runId == Cardinality(DOMAIN rdb.runs) + 1
                    db == [rdb EXCEPT !.runs = (runId :>
                             [workflowId |-> wf, status |-> "running",
                              summary |-> NoRunnerSummary, startedAt |-> now,
                              completedAt |-> NoTime]) @@ @]
                IN  RunnerEnterStep([rrun EXCEPT !.wf = wf, !.runId = runId], db, 1)
    /\ UNCHANGED runner

RunnerAfterExecute_ThrowLeavesRunning ==
    /\ rrun.pc = "awaitExecute"
    /\ \E o \in Outcomes :
         LET status == IF o = "ok" THEN "completed" ELSE "failed"
             error  == IF o = "ok" THEN NULL ELSE "e1"
         IN  /\ rdb' = IF o = "throw" THEN rdb
                       ELSE [rdb EXCEPT !.tasks[rrun.taskId] =
                   [@ EXCEPT !.status = status,
                             !.output = IF o = "ok" THEN Stringify("out1") ELSE NULL,
                             !.error = error,
                             !.completedAt = now]]
             /\ rrun' = [rrun EXCEPT !.pc = "awaitStep",
                   !.outcomes = Append(@, o),
                   !.pending = [plugin |-> rrun.wf[rrun.step], status |-> status,
                                error |-> error]]
    /\ UNCHANGED runner

\* executeStep resumed after plugin.execute: the task row and the StepResult
RunnerAfterExecute ==
    /\ rrun.pc = "awaitExecute"
    /\ \E o \in Outcomes :
         LET status == IF o = "ok" THEN "completed" ELSE "failed"
             error  == IF o = "ok" THEN NULL ELSE "e1"
         IN  /\ rdb' = [rdb EXCEPT !.tasks[rrun.taskId] =
                   [@ EXCEPT !.status = status,
                             !.output = IF o = "ok" THEN Stringify("out1") ELSE NULL,
                             !.error = error,
                             !.completedAt = now]]
             /\ rrun' = [rrun EXCEPT !.pc = "awaitStep",
                   !.outcomes = Append(@, o),
                   !.pending = [plugin |-> rrun.wf[rrun.step], status |-> status,
                                error |-> error]]
    /\ UNCHANGED runner

\* run resumed after executeStep: the loop body after the await, then the
\* next step or the end of the run
RunnerAfterStep ==
    /\ rrun.pc = "awaitStep"
    /\ LET sr == rrun.pending
           failed == sr.status = "failed"
           r1 == [rrun EXCEPT !.stepResults = Append(@, sr),
                              !.errors = IF failed
                                           THEN Append(@, <<sr.plugin, sr.error>>)
                                           ELSE @]
       IN  IF failed /\ IsCritical(sr.plugin)
             THEN RunnerFinish(r1, rdb, "failed")
             ELSE RunnerEnterStep(r1, rdb, rrun.step + 1)
    /\ UNCHANGED runner

NextRunner ==
    \/ (RunnerRun /\ UNCHANGED exceptRunner)
    \/ (RunnerAfterExecute /\ UNCHANGED exceptRunner)
    \/ (RunnerAfterStep /\ UNCHANGED exceptRunner)

\* ---------------------------------------------------------------------
\* Policy (core/policy/policy.ts)
\* ---------------------------------------------------------------------
\* A string is the sequence of its characters; a condition value is a
\* string, an array of strings or a number.
Str(s) == [kind |-> "string", s |-> s, a |-> {}, n |-> 0]
Arr(a) == [kind |-> "array", s |-> <<>>, a |-> a, n |-> 0]
Num(n) == [kind |-> "number", s |-> <<>>, a |-> {}, n |-> n]

\* String(value)
ToStr(v) ==
    IF v.kind = "string" THEN v.s
    ELSE IF v.kind = "number" THEN <<ToString(v.n)>>
    ELSE <<"array">>

\* String.prototype.includes
StrIncludes(s, part) ==
    \E i \in 0..(Len(s) - Len(part)) : SubSeq(s, i + 1, i + Len(part)) = part

\* new RegExp(pattern).test(s), for the patterns made of literal characters
\* with an optional leading ^ and an optional trailing $
RegExpTest(pattern, s) ==
    LET atStart == Len(pattern) > 0 /\ pattern[1] = "^"
        p1 == IF atStart THEN Tail(pattern) ELSE pattern
        atEnd == Len(p1) > 0 /\ p1[Len(p1)] = "$"
        lit == IF atEnd THEN SubSeq(p1, 1, Len(p1) - 1) ELSE p1
    IN  \E i \in 0..(Len(s) - Len(lit)) :
            /\ SubSeq(s, i + 1, i + Len(lit)) = lit
            /\ atStart => i = 0
            /\ atEnd => i + Len(lit) = Len(s)

evaluateToolCondition(condition, toolName) ==
    CASE condition.operator = "equals" ->
            condition.value.kind = "string" /\ toolName = condition.value.s
      [] condition.operator = "contains" ->
            StrIncludes(toolName, ToStr(condition.value))
      [] condition.operator = "matches" ->
            RegExpTest(ToStr(condition.value), toolName)
      [] OTHER -> FALSE

evaluateRoleCondition(condition, role) ==
    CASE condition.operator = "equals" ->
            condition.value.kind = "string" /\ role = condition.value.s
      [] condition.operator = "contains" ->
            condition.value.kind = "array" /\ role \in condition.value.a
      [] OTHER -> FALSE

Undefined == [kind |-> "undefined", s |-> <<>>, a |-> {}, n |-> 0]
Null == [kind |-> "null", s |-> <<>>, a |-> {}, n |-> 0]
Bool(b) == [kind |-> "boolean", s |-> <<>>, a |-> {}, n |-> IF b THEN 1 ELSE 0]

Digits == <<"0", "1", "2", "3", "4", "5", "6", "7", "8", "9">>

IsDigit(ch) == \E d \in 1..10 : Digits[d] = ch

DigitValue(ch) == (CHOOSE d \in 1..10 : Digits[d] = ch) - 1

RECURSIVE ParseDigits(_)
ParseDigits(s) ==
    IF s = <<>> THEN 0
    ELSE 10 * ParseDigits(SubSeq(s, 1, Len(s) - 1)) + DigitValue(s[Len(s)])

\* ToNumber of a string of characters: the empty string is 0, a string of
\* decimal digits is its value, any other string of these is NaN
StringToNumber(s) ==
    IF \A i \in 1..Len(s) : IsDigit(s[i])
      THEN [nan |-> FALSE, n |-> ParseDigits(s)]
      ELSE [nan |-> TRUE, n |-> 0]

\* the conversion that < > <= >= apply to an operand that is not a number:
\* undefined is NaN, null is 0, false and true are 0 and 1, a string is
\* parsed, an array is converted by way of its join(",")
ToNumber(v) ==
    CASE v.kind = "number" -> [nan |-> FALSE, n |-> v.n]
      [] v.kind = "string" -> StringToNumber(v.s)
      [] v.kind = "null" -> [nan |-> FALSE, n |-> 0]
      [] v.kind = "boolean" -> [nan |-> FALSE, n |-> v.n]
      [] v.kind = "array" ->
            IF v.a = {} THEN [nan |-> FALSE, n |-> 0]
            ELSE IF Cardinality(v.a) = 1
              THEN StringToNumber(CHOOSE s \in v.a : TRUE)
            ELSE [nan |-> TRUE, n |-> 0]
      [] OTHER -> [nan |-> TRUE, n |-> 0]

\* value === other, of a value of params and a value of a rule: two arrays
\* are two objects
StrictEquals(value, other) ==
    /\ value.kind = other.kind
    /\ value.kind # "array"
    /\ value = other

\* context.params[condition.field]
ParamOf(params, field) ==
    IF field \in DOMAIN params THEN params[field] ELSE Undefined

\* only typeof value is tested: condition.value goes into the comparison as
\* it is and is converted there
evaluateCustomCondition(condition, ctx) ==
    IF condition.field = NULL
      THEN FALSE
      ELSE LET value == ParamOf(ctx.params, condition.field)
               other == ToNumber(condition.value)
               isNumber == value.kind = "number"
           IN  CASE condition.operator = "equals" ->
                        StrictEquals(value, condition.value)
                 [] condition.operator = "gt" ->
                        isNumber /\ ~other.nan /\ value.n > other.n
                 [] condition.operator = "lt" ->
                        isNumber /\ ~other.nan /\ value.n < other.n
                 [] condition.operator = "gte" ->
                        isNumber /\ ~other.nan /\ value.n >= other.n
                 [] condition.operator = "lte" ->
                        isNumber /\ ~other.nan /\ value.n <= other.n
                 [] OTHER -> FALSE

evaluateCondition(condition, ctx) ==
    CASE condition.type = "tool" -> evaluateToolCondition(condition, ctx.toolName)
      [] condition.type = "role" -> evaluateRoleCondition(condition, ctx.role)
      [] condition.type = "custom" -> evaluateCustomCondition(condition, ctx)
      [] OTHER -> FALSE

\* one step of the stable sort by (a, b) => b.priority - a.priority: r goes
\* behind every rule whose priority is not lower
InsertRule_BeforeTies(sorted, r) ==
    LET k == Cardinality({i \in 1..Len(sorted) : sorted[i].priority > r.priority})
    IN  SubSeq(sorted, 1, k) \o <<r>> \o SubSeq(sorted, k + 1, Len(sorted))

InsertRule(sorted, r) ==
    LET k == Cardinality({i \in 1..Len(sorted) : sorted[i].priority >= r.priority})
    IN  SubSeq(sorted, 1, k) \o <<r>> \o SubSeq(sorted, k + 1, Len(sorted))

RECURSIVE SortByPriority(_)
SortByPriority(rules) ==
    IF rules = <<>> THEN <<>>
    ELSE InsertRule(SortByPriority(SubSeq(rules, 1, Len(rules) - 1)),
                    rules[Len(rules)])

\* seq tells the order in which the rules of a policy were inserted; it is
\* not a field of PolicyRule and no operator of the Policy reads it
Stamp(rule, k) ==
    [id |-> rule.id, condition |-> rule.condition, action |-> rule.action,
     priority |-> rule.priority, seq |-> k]

Restamp(rules) ==
    [i \in 1..Len(rules) |->
        Stamp(rules[i], Cardinality({j \in 1..Len(rules) : rules[j].seq <= rules[i].seq}))]

\* config.defaultAction || 'deny'
DefaultAction(cfgDefault) == IF cfgDefault = NULL THEN "deny" ELSE cfgDefault

NewPolicy(cfgDefault, cfgRules) ==
    [ cfgDefault |-> cfgDefault,
      defaultAction |-> DefaultAction(cfgDefault),
      rules |-> SortByPriority([i \in 1..Len(cfgRules) |-> Stamp(cfgRules[i], i)]) ]

addRule(p, rule) ==
    [p EXCEPT !.rules = SortByPriority(Append(@, Stamp(rule, Len(@) + 1)))]

\* findIndex and splice
removeRule(p, ruleId) ==
    LET found == {i \in 1..Len(p.rules) : p.rules[i].id = ruleId}
    IN  IF found = {} THEN p
        ELSE LET index == CHOOSE i \in found : \A j \in found : i <= j
             IN  [p EXCEPT !.rules = Restamp(SubSeq(@, 1, index - 1)
                                             \o SubSeq(@, index + 1, Len(@)))]

Allowed_NotDeny(action) == action # "deny"

\* rule.action === 'allow'
Allowed(action) == action = "allow"

RuleResult(rule) ==
    [ allowed |-> Allowed(rule.action), action |-> rule.action,
      matchedRule |-> <<rule>>, reason |-> <<"Matched rule", rule.id>> ]

DefaultResult(p) ==
    [ allowed |-> Allowed(p.defaultAction), action |-> p.defaultAction,
      matchedRule |-> <<>>, reason |-> <<"No matching rule found">> ]

\* ---------------------------------------------------------------------
\* SpecPolicy: addRule, removeRule and evaluate on one Policy; evaluate
\* awaits evaluateCondition once per rule
\* ---------------------------------------------------------------------
CondToolWrite ==
    [type |-> "tool", operator |-> "contains", field |-> NULL,
     value |-> Str(<<"w", "r">>)]
CondRoleExecutor ==
    [type |-> "role", operator |-> "equals", field |-> NULL,
     value |-> Str(<<"executor">>)]
CondAmount ==
    [type |-> "custom", operator |-> "gt", field |-> "amount",
     value |-> Num(1)]

RuleIds == {"r1", "r2"}

\* condition, action and priority of the rules the policy is given
RuleShapes ==
    { <<CondToolWrite, "deny", 2>>, <<CondRoleExecutor, "allow", 2>>,
      <<CondAmount, "require_approval", 1>> }

RulePool ==
    { [id |-> i, condition |-> sh[1], action |-> sh[2], priority |-> sh[3]] :
        i \in RuleIds, sh \in RuleShapes }

Roles == {<<"executor">>, <<"watcher">>}
ToolNames == {<<"f", "w", "r">>, <<"f", "r", "d">>}
ParamSets == {EmptyMap, [f \in {"amount"} |-> Num(5)]}

EvalCalls == [role : Roles, toolName : ToolNames, params : ParamSets]

NoEvalCall == [role |-> <<>>, toolName |-> <<>>, params |-> EmptyMap]

NoEvalResult ==
    [allowed |-> FALSE, action |-> NULL, matchedRule |-> <<>>, reason |-> <<>>]

IdleEval ==
    [ pc |-> "idle", call |-> NoEvalCall, idx |-> 0, matches |-> FALSE,
      rule |-> <<>>, dirty |-> FALSE, result |-> NoEvalResult ]

InitPolicy ==
    /\ \E d \in {NULL, "allow", "require_approval"},
          rs \in SeqsUpTo(RulePool, MaxCtorRules) : policy = NewPolicy(d, rs)
    /\ pe = IdleEval

\* the for...of loop reaching index idx of this.rules: the end of the loop
\* and the default result, or the call of evaluateCondition and its await
EvalStep(e, idx) ==
    IF idx > Len(policy.rules)
      THEN [e EXCEPT !.pc = "done", !.idx = idx, !.matches = FALSE,
                     !.rule = <<>>, !.result = DefaultResult(policy)]
      ELSE [e EXCEPT !.pc = "await", !.idx = idx,
                     !.rule = <<policy.rules[idx]>>,
                     !.matches = evaluateCondition(policy.rules[idx].condition,
                          [role |-> e.call.role, toolName |-> e.call.toolName,
                           params |-> e.call.params, timestamp |-> now])]

PolicyEvaluate ==
    /\ pe.pc \in {"idle", "done"}
    /\ \E call \in EvalCalls :
          pe' = EvalStep([IdleEval EXCEPT !.call = call], 1)
    /\ UNCHANGED policy

\* evaluate resumed after evaluateCondition
PolicyResume ==
    /\ pe.pc = "await"
    /\ pe' = IF pe.matches
               THEN [pe EXCEPT !.pc = "done", !.result = RuleResult(pe.rule[1])]
               ELSE EvalStep(pe, pe.idx + 1)
    /\ UNCHANGED policy

\* what a change of the rules does to the record of the evaluation: an
\* evaluation in progress is marked dirty, the record of one that returned is
\* dropped
RulesChanged(e) ==
    IF e.pc = "await" THEN [e EXCEPT !.dirty = TRUE] ELSE IdleEval

PolicyAddRule ==
    /\ Len(policy.rules) < MaxRules
    /\ \E rule \in RulePool : policy' = addRule(policy, rule)
    /\ pe' = RulesChanged(pe)

PolicyRemoveRule ==
    /\ \E id \in RuleIds : policy' = removeRule(policy, id)
    /\ pe' = RulesChanged(pe)

NextPolicy ==
    \/ (PolicyEvaluate /\ UNCHANGED exceptPolicy)
    \/ (PolicyResume /\ UNCHANGED exceptPolicy)
    \/ (PolicyAddRule /\ UNCHANGED exceptPolicy)
    \/ (PolicyRemoveRule /\ UNCHANGED exceptPolicy)

\* ---------------------------------------------------------------------
\* CircuitBreaker (src/unnamed/part_002)
\* ---------------------------------------------------------------------
UndefinedHalfOpenRequests == 0 - 1

NewCircuitBreaker ==
    [state |-> "closed", failures |-> 0, lastFailureTime |-> 0,
     halfOpenSuccesses |-> 0]

\* options.halfOpenRequests ?? 1
NewCircuitBreakerOptions(failureThreshold, resetTimeoutMs, halfOpenRequests) ==
    [ failureThreshold |-> failureThreshold,
      resetTimeoutMs |-> resetTimeoutMs,
      halfOpenRequests |-> IF halfOpenRequests = UndefinedHalfOpenRequests
                             THEN 1 ELSE halfOpenRequests ]

onSuccess_KeepsFailures(b, cfg) ==
    IF b.state = "half_open"
      THEN LET n == b.halfOpenSuccesses + 1
           IN  IF n >= cfg.halfOpenRequests
                 THEN [b EXCEPT !.halfOpenSuccesses = n, !.state = "closed",
                                !.failures = 0]
                 ELSE [b EXCEPT !.halfOpenSuccesses = n]
      ELSE b

onSuccess(b, cfg) ==
    IF b.state = "half_open"
      THEN LET n == b.halfOpenSuccesses + 1
           IN  IF n >= cfg.halfOpenRequests
                 THEN [b EXCEPT !.halfOpenSuccesses = n, !.state = "closed",
                                !.failures = 0]
                 ELSE [b EXCEPT !.halfOpenSuccesses = n]
      ELSE [b EXCEPT !.failures = 0]

onFailure(b, cfg, clock) ==
    LET b1 == [b EXCEPT !.failures = @ + 1, !.lastFailureTime = clock]
    IN  IF b.state = "half_open" \/ b1.failures >= cfg.failureThreshold
          THEN [b1 EXCEPT !.state = "open"]
          ELSE b1

reset(b) ==
    [b EXCEPT !.state = "closed", !.failures = 0, !.halfOpenSuccesses = 0]

\* ---------------------------------------------------------------------
\* SpecCB: execute, the guarded calls settling, reset and the clock
\* ---------------------------------------------------------------------
IdleCB ==
    /\ cb = NewCircuitBreaker
    /\ cbInFlight = 0
    /\ cbLast = "none"
    /\ cbConsec = 0
    /\ cbProbes = 0
    /\ cbTrials = 0

InitCB ==
    /\ \E th \in 1..MaxThreshold, ms \in {1, 2},
          h \in {UndefinedHalfOpenRequests, 2} :
          cbCfg = NewCircuitBreakerOptions(th, ms, h)
    /\ IdleCB

\* the test execute makes before it throws 'Circuit breaker is open'
CircuitOpen_EarlyProbe(b, cfg, clock) ==
    b.state = "open" /\ clock - b.lastFailureTime < cfg.resetTimeoutMs - 1

CircuitOpen_LateProbe(b, cfg, clock) ==
    b.state = "open" /\ clock - b.lastFailureTime <= cfg.resetTimeoutMs

CircuitOpen(b, cfg, clock) ==
    b.state = "open" /\ clock - b.lastFailureTime < cfg.resetTimeoutMs

\* execute from its call to `await fn()`, or to the throw of
\* 'Circuit breaker is open'
CBExecute ==
    /\ IF CircuitOpen(cb, cbCfg, now)
         THEN /\ cbLast' = "rejected"
              /\ UNCHANGED <<cb, cbInFlight, cbProbes, cbTrials>>
         ELSE /\ cbInFlight < MaxInFlight
              /\ cb' = IF cb.state = "open"
                         THEN [cb EXCEPT !.state = "half_open",
                                         !.halfOpenSuccesses = 0]
                         ELSE cb
              /\ cbTrials' = IF cb'.state = "half_open" THEN cbTrials + 1
                                                        ELSE cbTrials
              /\ cbProbes' = IF cb.state = "open" THEN 0 ELSE cbProbes
              /\ cbInFlight' = cbInFlight + 1
              /\ cbLast' = "admitted"
    /\ UNCHANGED <<cbCfg, cbConsec>>

\* the call that settles is one admitted in half-open, or one of the others
Settles(trial) ==
    /\ IF trial THEN cbTrials > 0 ELSE cbInFlight > cbTrials
    /\ cbTrials' = IF trial THEN cbTrials - 1 ELSE cbTrials

\* execute resumed after fn resolved
CBSucceed ==
    /\ cbInFlight > 0
    /\ \E trial \in BOOLEAN : Settles(trial)
    /\ cb' = onSuccess(cb, cbCfg)
    /\ cbInFlight' = cbInFlight - 1
    /\ cbLast' = "success"
    /\ cbConsec' = 0
    /\ cbProbes' = IF cb.state = "half_open" THEN cbProbes + 1 ELSE cbProbes
    /\ UNCHANGED cbCfg

\* execute resumed after fn rejected
CBFail ==
    /\ cbInFlight > 0
    /\ \E trial \in BOOLEAN : Settles(trial)
    /\ cb' = onFailure(cb, cbCfg, now)
    /\ cbInFlight' = cbInFlight - 1
    /\ cbLast' = "failure"
    /\ cbConsec' = cbConsec + 1
    /\ UNCHANGED <<cbCfg, cbProbes>>

CBReset ==
    /\ cb' = reset(cb)
    /\ cbLast' = "reset"
    /\ cbConsec' = 0
    /\ UNCHANGED <<cbCfg, cbInFlight, cbProbes, cbTrials>>

CBTick ==
    /\ Tick(MaxTime)
    /\ cbLast' = "tick"
    /\ UNCHANGED <<cb, cbCfg, cbInFlight, cbConsec, cbProbes, cbTrials>>

NextCB ==
    \/ (CBExecute /\ UNCHANGED exceptCB)
    \/ (CBSucceed /\ UNCHANGED exceptCB)
    \/ (CBFail /\ UNCHANGED exceptCB)
    \/ (CBReset /\ UNCHANGED exceptCB)
    \/ (CBTick /\ UNCHANGED exceptCBTick)

\* ---------------------------------------------------------------------
\* withRetry and calculateBackoff (src/unnamed/part_002)
\* ---------------------------------------------------------------------
\* an option the caller left out
UndefinedOption == 0 - 1

DefaultMaxAttempts == 3
DefaultBaseDelayMs == 1000
DefaultMaxDelayMs == 30000
DefaultBackoffMultiplier == 2

\* { ...DEFAULT_RETRY_OPTIONS, ...options }; retryableErrors is the set of
\* errors the predicate returns true for, or NULL when there is no predicate
RetryOpts(options) ==
    LET or(v, dflt) == IF v = UndefinedOption THEN dflt ELSE v
    IN  [ maxAttempts |-> or(options.maxAttempts, DefaultMaxAttempts),
          baseDelayMs |-> or(options.baseDelayMs, DefaultBaseDelayMs),
          maxDelayMs |-> or(options.maxDelayMs, DefaultMaxDelayMs),
          backoffMultiplier |-> or(options.backoffMultiplier, DefaultBackoffMultiplier),
          hasPredicate |-> options.hasPredicate,
          retryableErrors |-> options.retryableErrors ]

RECURSIVE Pow(_, _)
Pow(b, e) == IF e = 0 THEN 1 ELSE b * Pow(b, e - 1)

Min(a, b) == IF a < b THEN a ELSE b

\* the values of 100 * 0.1 * (Math.random() * 2 - 1) taken into account:
\* Math.random() is in [0, 1)
JitterPercents == {0 - 10, 0, 9}

calculateBackoff_CapsBeforeJitter(attempt, baseDelayMs, maxDelayMs, multiplier, jitterPercent) ==
    LET mult == IF multiplier = UndefinedOption THEN 2 ELSE multiplier
        delay == Min(baseDelayMs * Pow(mult, attempt - 1), maxDelayMs)
        jitter == (delay * jitterPercent) \div 100
    IN  delay + jitter

\* calculateBackoff, with the jitter as a percentage of the delay; a
\* multiplier left out is 2
calculateBackoff(attempt, baseDelayMs, maxDelayMs, multiplier, jitterPercent) ==
    LET mult == IF multiplier = UndefinedOption THEN 2 ELSE multiplier
        delay == baseDelayMs * Pow(mult, attempt - 1)
        jitter == (delay * jitterPercent) \div 100
    IN  Min(delay + jitter, maxDelayMs)

\* opts.retryableErrors && !opts.retryableErrors(lastError)
NotRetryable_Never(opts, error) == FALSE

NotRetryable(opts, error) ==
    opts.hasPredicate /\ error \notin opts.retryableErrors

\* attempt < opts.maxAttempts: a sleep follows the failed attempt
SleepsAfter_EveryAttempt(opts, attempt) == attempt <= opts.maxAttempts

SleepsAfter(opts, attempt) == attempt < opts.maxAttempts

\* ---------------------------------------------------------------------
\* SpecRetry: one call of withRetry
\* ---------------------------------------------------------------------
RetryOptions ==
    [ maxAttempts : (1..MaxMaxAttempts) \cup {UndefinedOption},
      baseDelayMs : {100, UndefinedOption},
      maxDelayMs : {150, UndefinedOption},
      backoffMultiplier : {UndefinedOption},
      hasPredicate : {TRUE},
      retryableErrors : {{}, {"e1"}} ]
    \cup
    [ maxAttempts : (1..MaxMaxAttempts) \cup {UndefinedOption},
      baseDelayMs : {100, UndefinedOption},
      maxDelayMs : {150, UndefinedOption},
      backoffMultiplier : {UndefinedOption},
      hasPredicate : {FALSE},
      retryableErrors : {{}} ]

IdleRetryCall ==
    [ pc |-> "idle", attempt |-> 0, lastError |-> NULL,
      value |-> NULL, thrown |-> NULL,
      outcomes |-> <<>>,  \* what each call of fn did: "ok" or its error
      sleeps |-> <<>> ]   \* the delay of each sleep

IdleRetry ==
    /\ rtOpts = RetryOpts([maxAttempts |-> UndefinedOption,
                           baseDelayMs |-> UndefinedOption,
                           maxDelayMs |-> UndefinedOption,
                           backoffMultiplier |-> UndefinedOption,
                           hasPredicate |-> FALSE, retryableErrors |-> {}])
    /\ rt = IdleRetryCall

InitRetry ==
    /\ \E options \in RetryOptions : rtOpts = RetryOpts(options)
    /\ rt = IdleRetryCall

\* the head of the for loop with the given attempt: the call of fn, or the
\* throw of lastError behind the loop
RetryLoop(r, attempt) ==
    IF attempt <= rtOpts.maxAttempts
      THEN [r EXCEPT !.pc = "awaitFn", !.attempt = attempt]
      ELSE [r EXCEPT !.pc = "thrown", !.attempt = attempt, !.thrown = r.lastError]

RetryCall ==
    /\ rt.pc = "idle"
    /\ rt' = RetryLoop(rt, 1)
    /\ UNCHANGED rtOpts

\* fn resolved: withRetry returns its value
RetryFnResolves ==
    /\ rt.pc = "awaitFn"
    /\ rt' = [rt EXCEPT !.pc = "returned", !.value = "out1",
                        !.outcomes = Append(@, "ok")]
    /\ UNCHANGED rtOpts

\* fn rejected: the catch block
RetryFnRejects ==
    /\ rt.pc = "awaitFn"
    /\ \E error \in Errors, jitterPercent \in JitterPercents :
         LET r1 == [rt EXCEPT !.lastError = error,
                              !.outcomes = Append(@, error)]
         IN  rt' = IF NotRetryable(rtOpts, error)
                     THEN [r1 EXCEPT !.pc = "thrown", !.thrown = error]
                   ELSE IF SleepsAfter(rtOpts, rt.attempt)
                     THEN [r1 EXCEPT !.pc = "sleeping",
                             !.sleeps = Append(@,
                                 calculateBackoff(rt.attempt, rtOpts.baseDelayMs,
                                     rtOpts.maxDelayMs, rtOpts.backoffMultiplier,
                                     jitterPercent))]
                   ELSE RetryLoop(r1, rt.attempt + 1)
    /\ UNCHANGED rtOpts

\* the sleep is over: the next iteration of the loop
RetryWakes ==
    /\ rt.pc = "sleeping"
    /\ rt' = RetryLoop(rt, rt.attempt + 1)
    /\ UNCHANGED rtOpts

NextRetry ==
    \/ (RetryCall /\ UNCHANGED exceptRetry)
    \/ (RetryFnResolves /\ UNCHANGED exceptRetry)
    \/ (RetryFnRejects /\ UNCHANGED exceptRetry)
    \/ (RetryWakes /\ UNCHANGED exceptRetry)

\* ---------------------------------------------------------------------
\* RateLimiter (src/unnamed/part_002)
\* ---------------------------------------------------------------------
NewRateLimiter(maxRequests, windowMs) ==
    [requests |-> <<>>, maxRequests |-> maxRequests, windowMs |-> windowMs]

\* Array.prototype.filter
RECURSIVE FilterSeq(_, _, _)
FilterSeq(q, clock, windowMs) ==
    IF q = <<>> THEN <<>>
    ELSE LET rest == FilterSeq(Tail(q), clock, windowMs)
         IN  IF clock - Head(q) < windowMs THEN <<Head(q)>> \o rest ELSE rest

cleanup(l, clock) ==
    [l EXCEPT !.requests = FilterSeq(@, clock, l.windowMs)]

\* windowMs - (Date.now() - oldestRequest) when acquire has to wait, 0 when
\* it goes straight on to the push; l is the limiter after cleanup
WaitTime(l, clock) ==
    IF Len(l.requests) >= l.maxRequests /\ l.requests # <<>>
         /\ l.requests[1] # 0
         /\ l.windowMs - (clock - l.requests[1]) > 0
      THEN l.windowMs - (clock - l.requests[1])
      ELSE 0

\* this.requests.push(Date.now())
PushRequest(l, clock) == [l EXCEPT !.requests = Append(@, clock)]

remaining_CountsExpired(l, clock) ==
    LET free == l.maxRequests - Len(l.requests)
    IN  [l |-> l, ret |-> IF free > 0 THEN free ELSE 0]

remaining(l, clock) ==
    LET l1 == cleanup(l, clock)
        free == l1.maxRequests - Len(l1.requests)
    IN  [l |-> l1, ret |-> IF free > 0 THEN free ELSE 0]

resetLimiter(l) == [l EXCEPT !.requests = <<>>]

\* ---------------------------------------------------------------------
\* SpecRL: acquire called by several callers, remaining, reset, the clock
\* ---------------------------------------------------------------------
IdleAcquire == [pc |-> "idle", wakeAt |-> NoTime]

IdleLimiter ==
    /\ rl = NewRateLimiter(1, 1)
    /\ rlCalls = [c \in 1..MaxAcquirers |-> IdleAcquire]
    /\ rlLast = [op |-> "none", ret |-> 0]

InitRL ==
    /\ \E maxRequests \in 1..MaxMaxRequests, windowMs \in {1, 2} :
          rl = NewRateLimiter(maxRequests, windowMs)
    /\ rlCalls = [c \in 1..MaxAcquirers |-> IdleAcquire]
    /\ rlLast = [op |-> "none", ret |-> 0]

\* acquire from its call to `await sleep(waitTime)` or to its end
RLAcquire(c) ==
    /\ rlCalls[c].pc = "idle"
    /\ LET l1 == cleanup(rl, now)
           waitTime == WaitTime(l1, now)
       IN  IF waitTime > 0
             THEN /\ rl' = l1
                  /\ rlCalls' = [rlCalls EXCEPT ![c] =
                        [pc |-> "sleeping", wakeAt |-> now + waitTime]]
                  /\ rlLast' = [op |-> "wait", ret |-> waitTime]
             ELSE /\ rl' = PushRequest(l1, now)
                  /\ rlLast' = [op |-> "acquired", ret |-> 0]
                  /\ UNCHANGED rlCalls

\* acquire resumed after the sleep: cleanup and push
RLWake_AnyTime(c) ==
    /\ rlCalls[c].pc = "sleeping"
    /\ rl' = PushRequest(cleanup(rl, now), now)
    /\ rlCalls' = [rlCalls EXCEPT ![c] = IdleAcquire]
    /\ rlLast' = [op |-> "resumed", ret |-> 0]

RLWake(c) ==
    /\ rlCalls[c].pc = "sleeping"
    /\ now >= rlCalls[c].wakeAt
    /\ rl' = PushRequest(cleanup(rl, now), now)
    /\ rlCalls' = [rlCalls EXCEPT ![c] = IdleAcquire]
    /\ rlLast' = [op |-> "resumed", ret |-> 0]

RLRemaining ==
    /\ rl' = remaining(rl, now).l
    /\ rlLast' = [op |-> "remaining", ret |-> remaining(rl, now).ret]
    /\ UNCHANGED rlCalls

RLReset ==
    /\ rl' = resetLimiter(rl)
    /\ rlLast' = [op |-> "reset", ret |-> 0]
    /\ UNCHANGED rlCalls

RLTick ==
    /\ Tick(MaxTime)
    /\ rlLast' = [op |-> "tick", ret |-> 0]
    /\ UNCHANGED <<rl, rlCalls>>

NextRL ==
    \/ \E c \in 1..MaxAcquirers : (RLAcquire(c) /\ UNCHANGED exceptRL)
    \/ \E c \in 1..MaxAcquirers : (RLWake(c) /\ UNCHANGED exceptRL)
    \/ (RLRemaining /\ UNCHANGED exceptRL)
    \/ (RLReset /\ UNCHANGED exceptRL)
    \/ (RLTick /\ UNCHANGED exceptRLTick)

\* ---------------------------------------------------------------------
\* runAutopilot (src/unnamed/part_000) and the actions table
\* ---------------------------------------------------------------------
\* an optional boolean option: "true", "false" or NULL when left out
OptBooleans == {"true", "false", NULL}

Truthy(v) == v = "true"

\* ActionsRepository.create: status 'proposed', dry_run 1 unless
\* input.dryRun is false
DbCreateAction(dryRun) ==
    [status |-> "proposed", dry_run |-> IF dryRun # "false" THEN 1 ELSE 0]

\* the rows db.actions.findByRun can return for the run: created during the
\* run, and possibly rejected since
ActionRows ==
    {DbCreateAction(d) : d \in OptBooleans}
        \cup {[DbCreateAction(d) EXCEPT !.status = "rejected"] : d \in {"false"}}

\* the safety check at the head of runAutopilot
SafetyCheck(options) ==
    IF ~Truthy(options.dryRun) /\ ~Truthy(options.approve)
          /\ ~Truthy(options.interactive)
      THEN [options EXCEPT !.dryRun = "true"]
      ELSE options

\* requiresApproval && !options.approve
NeedsApproval(options, action) ==
    action.dry_run = 0 /\ ~Truthy(options.approve)

IdleAutopilot ==
    [ pc |-> "idle",
      options |-> [dryRun |-> NULL, approve |-> NULL, interactive |-> NULL],
      runner |-> NewRunner(FALSE, FALSE, {}),
      proposedActions |-> <<>>,  \* the rows findByRun returned
      actions |-> <<>>,          \* the rows as they are in the table
      idx |-> 0,
      actionsExecuted |-> <<>>, actionsSkipped |-> <<>>,
      granted |-> {},  \* the actions promptForApproval returned true for
      refused |-> {},  \* the actions promptForApproval returned false for
      threw |-> {} ]   \* the actions executeAction threw for

InitAutopilot ==
    \E d \in OptBooleans, a \in OptBooleans, i \in OptBooleans :
        ap = [IdleAutopilot EXCEPT
                 !.options = [dryRun |-> d, approve |-> a, interactive |-> i]]

\* the for loop over proposedActions reaching index idx, up to the next await
\* or the return
RECURSIVE AutopilotLoop(_, _)
AutopilotLoop(a, idx) ==
    IF idx > Len(a.actions)
      THEN [a EXCEPT !.pc = "returned", !.idx = idx]
    ELSE IF a.proposedActions[idx].status # "proposed"
      THEN AutopilotLoop(a, idx + 1)
    ELSE IF NeedsApproval(a.options, a.proposedActions[idx])
      THEN IF Truthy(a.options.interactive)
             THEN [a EXCEPT !.pc = "awaitPrompt", !.idx = idx]
             ELSE AutopilotLoop(
                    [a EXCEPT !.actionsSkipped =
                        Append(@, <<idx, "Requires approval">>)], idx + 1)
    ELSE [a EXCEPT !.pc = "awaitExecute", !.idx = idx]

\* runAutopilot from its call to `await runner.run('autopilot', ...)`
AutopilotRun ==
    /\ ap.pc = "idle"
    /\ LET options == SafetyCheck(ap.options)
       IN  ap' = [ap EXCEPT !.pc = "awaitRun", !.options = options,
                    !.runner = NewRunner(
                        IF options.dryRun = NULL THEN TRUE
                                                 ELSE Truthy(options.dryRun),
                        IF options.approve = NULL THEN FALSE
                                                  ELSE Truthy(options.approve),
                        Plugins)]

\* runAutopilot resumed after runner.run: findByRun and the loop
AutopilotAfterRun ==
    /\ ap.pc = "awaitRun"
    /\ \E rows \in SeqsUpTo(ActionRows, MaxActions) :
          ap' = AutopilotLoop([ap EXCEPT !.proposedActions = rows,
                                         !.actions = rows], 1)

\* runAutopilot resumed after promptForApproval
AutopilotAfterPrompt ==
    /\ ap.pc = "awaitPrompt"
    /\ \E approved \in BOOLEAN :
          ap' = IF approved
                  THEN [ap EXCEPT !.pc = "awaitExecute",
                                  !.granted = @ \cup {ap.idx}]
                  ELSE AutopilotLoop(
                         [ap EXCEPT !.actionsSkipped =
                                       Append(@, <<ap.idx, "Rejected by user">>),
                                    !.actions[ap.idx].status = "rejected",
                                    !.refused = @ \cup {ap.idx}],
                         ap.idx + 1)

\* runAutopilot resumed after executeAction returned or threw
AutopilotAfterExecute ==
    /\ ap.pc = "awaitExecute"
    /\ \E threw \in BOOLEAN :
          ap' = IF threw
                  THEN AutopilotLoop(
                         [ap EXCEPT !.actions[ap.idx].status = "failed",
                                    !.actionsSkipped =
                                       Append(@, <<ap.idx, "Execution failed">>),
                                    !.threw = @ \cup {ap.idx}],
                         ap.idx + 1)
                  ELSE AutopilotLoop(
                         [ap EXCEPT !.actions[ap.idx].status = "executed",
                                    !.actionsExecuted = Append(@, ap.idx)],
                         ap.idx + 1)

NextAutopilot ==
    \/ (AutopilotRun /\ UNCHANGED exceptAutopilot)
    \/ (AutopilotAfterRun /\ UNCHANGED exceptAutopilot)
    \/ (AutopilotAfterPrompt /\ UNCHANGED exceptAutopilot)
    \/ (AutopilotAfterExecute /\ UNCHANGED exceptAutopilot)

IdleAutopilotRun == ap = IdleAutopilot

\* ---------------------------------------------------------------------
\* PolicyEngine (src/unnamed/part_004)
\* ---------------------------------------------------------------------
\* Policy.evaluate run to its end on rules that do not change meanwhile: the
\* result of the first rule, from index idx on, whose condition holds, or the
\* default result
RECURSIVE PolicyEvaluateFrom(_, _, _)
PolicyEvaluateFrom(p, ctx, idx) ==
    IF idx > Len(p.rules) THEN DefaultResult(p)
    ELSE IF evaluateCondition(p.rules[idx].condition, ctx)
      THEN RuleResult(p.rules[idx])
    ELSE PolicyEvaluateFrom(p, ctx, idx + 1)

\* strictMode left out of the config
UndefinedStrictMode == NULL

\* an optional Policy is <<>> or <<policy>>; a policy here is the record
\* [id, policy] of its id and its rules
NewPolicyEngine(cfgDefaultPolicy, cfgStrictMode) ==
    [ policies      |-> EmptyMap,
      agentPolicies |-> EmptyMap,
      defaultPolicy |-> cfgDefaultPolicy,
      cfgStrictMode |-> cfgStrictMode,
      strictMode    |-> IF cfgStrictMode = UndefinedStrictMode
                          THEN TRUE ELSE cfgStrictMode = "true" ]

registerPolicy(e, pol) ==
    [e EXCEPT !.policies =
        [id \in DOMAIN @ \cup {pol.id} |-> IF id = pol.id THEN pol ELSE @[id]]]

unregisterPolicy_AlsoInUse(e, policyId) ==
    [e |-> [e EXCEPT !.policies = [id \in DOMAIN @ \ {policyId} |-> @[id]]],
     ret |-> policyId \in DOMAIN e.policies]

unregisterPolicy(e, policyId) ==
    IF \E a \in DOMAIN e.agentPolicies : e.agentPolicies[a] = policyId
      THEN [e |-> e, ret |-> FALSE]
      ELSE [e |-> [e EXCEPT !.policies =
                      [id \in DOMAIN @ \ {policyId} |-> @[id]]],
            ret |-> policyId \in DOMAIN e.policies]

assignPolicy(e, agentId, policyId) ==
    IF policyId \notin DOMAIN e.policies
      THEN [e |-> e, ret |-> FALSE]
      ELSE [e |-> [e EXCEPT !.agentPolicies =
                      [a \in DOMAIN @ \cup {agentId} |->
                          IF a = agentId THEN policyId ELSE @[a]]],
            ret |-> TRUE]

unassignPolicy(e, agentId) ==
    [e EXCEPT !.agentPolicies = [a \in DOMAIN @ \ {agentId} |-> @[a]]]

getAgentPolicy_IgnoresAssignment(e, agentId) == e.defaultPolicy

getAgentPolicy(e, agentId) ==
    IF agentId \in DOMAIN e.agentPolicies
      THEN IF e.agentPolicies[agentId] \in DOMAIN e.policies
             THEN <<e.policies[e.agentPolicies[agentId]]>>
             ELSE <<>>
      ELSE e.defaultPolicy

\* PolicyEngine.evaluate: the policy is resolved when the call is made
EngineEvaluateResult(e, agent, toolName, params, clock) ==
    LET found == getAgentPolicy(e, agent.id)
    IN  IF found = <<>>
          THEN IF e.strictMode
                 THEN [ allowed |-> FALSE, action |-> "deny",
                        matchedRule |-> <<>>,
                        reason |-> <<"No policy assigned and strict mode is enabled">> ]
                 ELSE [ allowed |-> TRUE, action |-> "allow",
                        matchedRule |-> <<>>,
                        reason |-> <<"No policy assigned and strict mode is disabled">> ]
          ELSE PolicyEvaluateFrom(found[1].policy,
                   [role |-> agent.role, toolName |-> toolName,
                    params |-> params, timestamp |-> clock], 1)

\* ---------------------------------------------------------------------
\* SpecEngine: policies registered and assigned to agents, evaluate and
\* checkPermission
\* ---------------------------------------------------------------------
PolicyIds == {"p1", "p2"}

EngineRule ==
    [id |-> "r1", condition |-> CondToolWrite, action |-> "deny", priority |-> 2]

EnginePolicies ==
    { [id |-> i, policy |-> NewPolicy(d, rs)] :
        i \in PolicyIds, d \in {NULL, "allow"}, rs \in {<<>>, <<EngineRule>>} }

Agents ==
    { [id |-> "a1", role |-> <<"executor">>],
      [id |-> "a2", role |-> <<"watcher">>] }

EngineOps == {"evaluate", "checkPermission"}

IdleEngineCall ==
    [ pc |-> "idle", op |-> "none",
      agent |-> [id |-> NULL, role |-> <<>>], call |-> NoEvalCall,
      result |-> NoEvalResult,       \* what the pending evaluate resolves to
      retResult |-> NoEvalResult,    \* what evaluate returned
      retAllowed |-> FALSE ]         \* what checkPermission returned

IdleEngine ==
    /\ engine = NewPolicyEngine(<<>>, UndefinedStrictMode)
    /\ ec = IdleEngineCall

InitEngine ==
    /\ \E d \in {<<>>} \cup {<<o>> : o \in {q \in EnginePolicies : q.id = "p1"}},
          s \in {UndefinedStrictMode, "true", "false"} :
          engine = NewPolicyEngine(d, s)
    /\ ec = IdleEngineCall

EngineRegisterPolicy ==
    /\ \E pol \in EnginePolicies : engine' = registerPolicy(engine, pol)
    /\ UNCHANGED ec

EngineUnregisterPolicy ==
    /\ \E id \in PolicyIds : engine' = unregisterPolicy(engine, id).e
    /\ UNCHANGED ec

EngineAssignPolicy ==
    /\ \E a \in Agents, id \in PolicyIds :
          engine' = assignPolicy(engine, a.id, id).e
    /\ UNCHANGED ec

EngineUnassignPolicy ==
    /\ \E a \in Agents : engine' = unassignPolicy(engine, a.id)
    /\ UNCHANGED ec

\* evaluate, or checkPermission up to its await of evaluate
EngineCall ==
    /\ ec.pc \in {"idle", "returned"}
    /\ \E op \in EngineOps, a \in Agents, call \in EvalCalls :
          /\ call.role = a.role
          /\ ec' = [IdleEngineCall EXCEPT
                      !.pc = "await", !.op = op, !.agent = a, !.call = call,
                      !.result = EngineEvaluateResult(engine, a, call.toolName,
                                                      call.params, now)]
    /\ UNCHANGED engine

\* the promise of evaluate resolves; checkPermission returns result.allowed
EngineReturn ==
    /\ ec.pc = "await"
    /\ ec' = IF ec.op = "checkPermission"
               THEN [ec EXCEPT !.pc = "returned", !.retAllowed = ec.result.allowed]
               ELSE [ec EXCEPT !.pc = "returned", !.retResult = ec.result]
    /\ UNCHANGED engine

NextEngine ==
    \/ (EngineRegisterPolicy /\ UNCHANGED exceptEngine)
    \/ (EngineUnregisterPolicy /\ UNCHANGED exceptEngine)
    \/ (EngineAssignPolicy /\ UNCHANGED exceptEngine)
    \/ (EngineUnassignPolicy /\ UNCHANGED exceptEngine)
    \/ (EngineCall /\ UNCHANGED exceptEngine)
    \/ (EngineReturn /\ UNCHANGED exceptEngine)

\* ---------------------------------------------------------------------
\* SpecBackoff: calls of calculateBackoff
\* ---------------------------------------------------------------------
BackoffCalls ==
    [ attempt : 1..MaxBackoffAttempt,
      baseDelayMs : {100, DefaultBaseDelayMs},
      maxDelayMs : {150, DefaultMaxDelayMs},
      multiplier : {UndefinedOption, 1, 2, 3},
      jitterPercent : JitterPercents ]

IdleBackoff ==
    bo = [ pc |-> "idle",
           call |-> [attempt |-> 1, baseDelayMs |-> 0, maxDelayMs |-> 0,
                     multiplier |-> UndefinedOption, jitterPercent |-> 0],
           ret |-> 0 ]

BackoffCall ==
    \E call \in BackoffCalls :
        bo' = [ pc |-> "returned", call |-> call,
                ret |-> calculateBackoff(call.attempt, call.baseDelayMs,
                                         call.maxDelayMs, call.multiplier,
                                         call.jitterPercent) ]

NextBackoff ==
    \/ (BackoffCall /\ UNCHANGED exceptBackoff)

\* ---------------------------------------------------------------------
\* SpecQuery: tasks of several priorities created over time, and query
\* ---------------------------------------------------------------------
QueryPriorities == {NULL, "critical", "low"}

\* the queries made: no filter, one filter each, a limit, several at once
Queries ==
    { NoQuery,
      [NoQuery EXCEPT !.runId = 1],
      [NoQuery EXCEPT !.status = "running"],
      [NoQuery EXCEPT !.type = "observe:watch"],
      [NoQuery EXCEPT !.type = "analyze:score"],
      [NoQuery EXCEPT !.agentId = "a1"],
      [NoQuery EXCEPT !.parentId = 1],
      [NoQuery EXCEPT !.priority = "low"],
      [NoQuery EXCEPT !.limit = 1],
      [NoQuery EXCEPT !.runId = 1, !.status = "pending", !.limit = 1] }

IdleQuery == [pc |-> "idle", q |-> NoQuery, ret |-> <<>>]

InitQuery == tq = IdleQuery

QueryCreateTask ==
    /\ FreshTaskId(tm) <= MaxTasks
    /\ \E run \in RunIds, parent \in DOMAIN tm.tasks \cup {NoId},
          priority \in QueryPriorities :
          tm' = createTask(tm, [id |-> FreshTaskId(tm), runId |-> run,
                                type |-> "observe:watch",
                                parentId |-> parent, agentId |-> NULL,
                                priority |-> priority,
                                maxRetries |-> UndefinedMaxRetries],
                           now)
    /\ tq' = IdleQuery

QueryStartTask ==
    /\ \E id \in DOMAIN tm.tasks :
          /\ ~startTask(tm, id, "a1", now).threw
          /\ tm' = startTask(tm, id, "a1", now).m
    /\ tq' = IdleQuery

QueryCall ==
    /\ \E q \in Queries : tq' = [pc |-> "returned", q |-> q, ret |-> query(tm, q)]
    /\ UNCHANGED tm

QueryTick ==
    /\ Tick(MaxTime)
    /\ tq' = IdleQuery

NextQuery ==
    \/ (QueryCreateTask /\ UNCHANGED exceptQueryTM)
    \/ (QueryStartTask /\ UNCHANGED exceptQueryTM)
    \/ (QueryCall /\ UNCHANGED exceptQuery)
    \/ (QueryTick /\ UNCHANGED exceptQueryTick)

\* ---------------------------------------------------------------------
\* SpecCustom: evaluateCondition on custom-field conditions
\* ---------------------------------------------------------------------
CustomOperators == {"equals", "contains", "gt", "lt", "gte", "lte"}

\* values a rule is given: numbers, strings, null, undefined, a boolean, arrays
CustomValues ==
    { Num(1), Num(5), Num(9), Str(<<"3">>), Str(<<"x">>), Str(<<>>), Null,
      Undefined, Bool(TRUE), Arr({}), Arr({<<"7">>}) }

CustomConditions ==
    [type : {"custom"}, operator : CustomOperators, field : {NULL, "amount"},
     value : CustomValues]

\* params without the field, and with a number, a string, null or undefined
\* under it
CustomParams ==
    {EmptyMap} \cup
    { [f \in {"amount"} |-> v] : v \in {Num(5), Str(<<"7">>), Null, Undefined} }

IdleCustom == [pc |-> "idle", condition |-> CondAmount, params |-> EmptyMap,
               ret |-> FALSE]

InitCustom == cc = IdleCustom

CustomCall ==
    \E condition \in CustomConditions, params \in CustomParams :
        cc' = [pc |-> "returned", condition |-> condition, params |-> params,
               ret |-> evaluateCondition(condition,
                         [role |-> <<"executor">>, toolName |-> <<"f", "w", "r">>,
                          params |-> params, timestamp |-> now])]

NextCustom ==
    \/ (CustomCall /\ UNCHANGED exceptCustom)

\* ---------------------------------------------------------------------
\* SpecPreset: the executor preset policy evaluated on capability names
\* ---------------------------------------------------------------------
ToolContains(part) ==
    [type |-> "tool", operator |-> "contains", field |-> NULL, value |-> Str(part)]

createExecutorPolicy_WebhookFirst(id) ==
    [ id |-> id,
      policy |-> NewPolicy("deny",
        << [id |-> "allow-execute",
            condition |-> ToolContains(<<"e", "x", "e", "c", "u", "t", "e">>),
            action |-> "require_approval", priority |-> 100],
           [id |-> "allow-webhook",
            condition |-> ToolContains(<<"w", "e", "b", "h", "o", "o", "k">>),
            action |-> "allow", priority |-> 110],
           [id |-> "allow-file",
            condition |-> ToolContains(<<"f", "i", "l", "e", "_", "w", "r", "i", "t", "e">>),
            action |-> "allow", priority |-> 90] >>) ]

createExecutorPolicy(id) ==
    [ id |-> id,
      policy |-> NewPolicy("deny",
        << [id |-> "allow-execute",
            condition |-> ToolContains(<<"e", "x", "e", "c", "u", "t", "e">>),
            action |-> "require_approval", priority |-> 100],
           [id |-> "allow-webhook",
            condition |-> ToolContains(<<"w", "e", "b", "h", "o", "o", "k">>),
            action |-> "allow", priority |-> 90],
           [id |-> "allow-file",
            condition |-> ToolContains(<<"f", "i", "l", "e", "_", "w", "r", "i", "t", "e">>),
            action |-> "allow", priority |-> 90] >>) ]

\* capability names are made of these pieces
NameSegments ==
    { <<"e", "x", "e", "c", "u", "t", "e">>,
      <<"w", "e", "b", "h", "o", "o", "k">>,
      <<"f", "i", "l", "e", "_", "w", "r", "i", "t", "e">>,
      <<"e", "x", "e", "c", "u", "t">>,
      <<"e">>,
      <<"r", "e", "a", "d">> }

RECURSIVE Concat(_)
Concat(segments) ==
    IF segments = <<>> THEN <<>> ELSE Head(segments) \o Concat(Tail(segments))

PresetToolNames == {Concat(segs) : segs \in SeqsUpTo(NameSegments, MaxSegments)}

IdlePreset == [pc |-> "idle", toolName |-> <<>>, result |-> NoEvalResult]

InitPreset == pr = IdlePreset

PresetEvaluate ==
    \E toolName \in PresetToolNames, role \in Roles :
        pr' = [pc |-> "returned", toolName |-> toolName,
               result |-> PolicyEvaluateFrom(createExecutorPolicy("p1").policy,
                              [role |-> role, toolName |-> toolName,
                               params |-> EmptyMap, timestamp |-> now], 1)]

NextPreset ==
    \/ (PresetEvaluate /\ UNCHANGED exceptPreset)

\* ---------------------------------------------------------------------
\* SpecCascade: a family of tasks, parents and children, started, completed
\* and cancelled through the TaskManager
\* ---------------------------------------------------------------------
CascadeCreateTask ==
    /\ FreshTaskId(tm) <= MaxFamily
    /\ \E parent \in DOMAIN tm.tasks \cup {NoId} :
         TMCalled("createTask", FreshTaskId(tm),
             [threw |-> FALSE,
              m |-> createTask(tm, [id |-> FreshTaskId(tm), runId |-> 1,
                                    type |-> "observe:watch",
                                    parentId |-> parent, agentId |-> NULL,
                                    priority |-> NULL,
                                    maxRetries |-> UndefinedMaxRetries],
                               now)])

CascadeStartTask ==
    \E id \in DOMAIN tm.tasks :
        TMCalled("startTask", id, startTask(tm, id, "a1", now))

CascadeCompleteTask ==
    \E id \in DOMAIN tm.tasks, o \in Outputs :
        TMCalled("completeTask", id, completeTask(tm, id, o, now))

CascadeCancelTask ==
    \E id \in DOMAIN tm.tasks :
        TMCalled("cancelTask", id, cancelTask(tm, id, now))

NextCascade ==
    \/ (CascadeCreateTask /\ UNCHANGED exceptTM)
    \/ (CascadeStartTask /\ UNCHANGED exceptTM)
    \/ (CascadeCompleteTask /\ UNCHANGED exceptTM)
    \/ (CascadeCancelTask /\ UNCHANGED exceptTM)

\* ---------------------------------------------------------------------
\* SpecReturn: a process that runs workflows through an Orchestrator or
\* through a WorkflowRunner
\* ---------------------------------------------------------------------
\* no WorkflowRunner is in use
RunnerUnused ==
    /\ runner = NewRunner(FALSE, FALSE, {})
    /\ rdb = NewDb
    /\ rrun = IdleRun

\* no Orchestrator is in use
OrchestratorUnused ==
    /\ orch = NewOrchestrator(FALSE)
    /\ dbRuns = EmptyMap
    /\ calls = [i \in 1..MaxCalls |-> IdleCall]
    /\ cancelCall = NoCancelCall
    /\ tm = NewTaskManager

NextReturn ==
    \/ \E c \in 1..MaxCalls :
          (RunnerUnused /\ OrchRunWorkflow(c) /\ UNCHANGED exceptOrchRun)
    \/ \E c \in 1..MaxCalls :
          (RunnerUnused /\ OrchAfterInit(c) /\ UNCHANGED exceptOrchRun)
    \/ \E c \in 1..MaxCalls :
          (RunnerUnused /\ OrchAfterPlugin(c) /\ UNCHANGED exceptOrchRun)
    \/ \E c \in 1..MaxCalls :
          (RunnerUnused /\ OrchAfterStep(c) /\ UNCHANGED exceptOrchRun)
    \/ \E c \in 1..MaxCalls :
          (RunnerUnused /\ OrchReturn(c) /\ UNCHANGED exceptOrchRun)
    \/ (RunnerUnused /\ OrchCancel /\ UNCHANGED exceptOrch)
    \/ (OrchestratorUnused /\ RunnerRun /\ UNCHANGED exceptRunner)
    \/ (OrchestratorUnused /\ RunnerAfterExecute /\ UNCHANGED exceptRunner)
    \/ (OrchestratorUnused /\ RunnerAfterStep /\ UNCHANGED exceptRunner)

\* ---------------------------------------------------------------------
\* Specifications: one per component, the other components left untouched
\* ---------------------------------------------------------------------
IdleTask ==
    /\ task = NoCall.pre
    /\ taskCall = NoCall
    /\ taskRetried = 0

IdleOrch ==
    /\ orch = NewOrchestrator(FALSE)
    /\ dbRuns = EmptyMap
    /\ calls = [i \in 1..MaxCalls |-> IdleCall]
    /\ cancelCall = NoCancelCall

IdleRunner ==
    /\ runner = NewRunner(FALSE, FALSE, {})
    /\ rdb = NewDb
    /\ rrun = IdleRun

IdlePolicy ==
    /\ policy = NewPolicy(NULL, <<>>)
    /\ pe = IdleEval

IdleBreaker ==
    /\ cbCfg = NewCircuitBreakerOptions(1, 1, UndefinedHalfOpenRequests)
    /\ IdleCB

















InitSpecTask ==
    /\ now = 1
    /\ InitTask
    /\ InitTM
    /\ IdleOrch
    /\ IdleRunner
    /\ IdlePolicy
    /\ IdleBreaker
    /\ IdleRetry
    /\ IdleLimiter
    /\ IdleAutopilotRun
    /\ IdleEngine
    /\ IdleBackoff
    /\ InitQuery
    /\ InitCustom
    /\ InitPreset

SpecTask == InitSpecTask /\ [][NextTask]_vars

InitSpecTM ==
    /\ now = 1
    /\ IdleTask
    /\ InitTM
    /\ IdleOrch
    /\ IdleRunner
    /\ IdlePolicy
    /\ IdleBreaker
    /\ IdleRetry
    /\ IdleLimiter
    /\ IdleAutopilotRun
    /\ IdleEngine
    /\ IdleBackoff
    /\ InitQuery
    /\ InitCustom
    /\ InitPreset

SpecTM == InitSpecTM /\ [][NextTM]_vars

InitSpecOrch ==
    /\ now = 1
    /\ IdleTask
    /\ InitTM
    /\ InitOrch
    /\ IdleRunner
    /\ IdlePolicy
    /\ IdleBreaker
    /\ IdleRetry
    /\ IdleLimiter
    /\ IdleAutopilotRun
    /\ IdleEngine
    /\ IdleBackoff
    /\ InitQuery
    /\ InitCustom
    /\ InitPreset

SpecOrch == InitSpecOrch /\ [][NextOrch]_vars

InitSpecRunner ==
    /\ now = 1
    /\ IdleTask
    /\ InitTM
    /\ IdleOrch
    /\ InitRunner
    /\ IdlePolicy
    /\ IdleBreaker
    /\ IdleRetry
    /\ IdleLimiter
    /\ IdleAutopilotRun
    /\ IdleEngine
    /\ IdleBackoff
    /\ InitQuery
    /\ InitCustom
    /\ InitPreset

SpecRunner == InitSpecRunner /\ [][NextRunner]_vars

InitSpecPolicy ==
    /\ now = 1
    /\ IdleTask
    /\ InitTM
    /\ IdleOrch
    /\ IdleRunner
    /\ InitPolicy
    /\ IdleBreaker
    /\ IdleRetry
    /\ IdleLimiter
    /\ IdleAutopilotRun
    /\ IdleEngine
    /\ IdleBackoff
    /\ InitQuery
    /\ InitCustom
    /\ InitPreset

SpecPolicy == InitSpecPolicy /\ [][NextPolicy]_vars

InitSpecCB ==
    /\ now = 1
    /\ IdleTask
    /\ InitTM
    /\ IdleOrch
    /\ IdleRunner
    /\ IdlePolicy
    /\ InitCB
    /\ IdleRetry
    /\ IdleLimiter
    /\ IdleAutopilotRun
    /\ IdleEngine
    /\ IdleBackoff
    /\ InitQuery
    /\ InitCustom
    /\ InitPreset

SpecCB == InitSpecCB /\ [][NextCB]_vars

InitSpecRetry ==
    /\ now = 1
    /\ IdleTask
    /\ InitTM
    /\ IdleOrch
    /\ IdleRunner
    /\ IdlePolicy
    /\ IdleBreaker
    /\ InitRetry
    /\ IdleLimiter
    /\ IdleAutopilotRun
    /\ IdleEngine
    /\ IdleBackoff
    /\ InitQuery
    /\ InitCustom
    /\ InitPreset

SpecRetry == InitSpecRetry /\ [][NextRetry]_vars

InitSpecRL ==
    /\ now = 1
    /\ IdleTask
    /\ InitTM
    /\ IdleOrch
    /\ IdleRunner
    /\ IdlePolicy
    /\ IdleBreaker
    /\ IdleRetry
    /\ InitRL
    /\ IdleAutopilotRun
    /\ IdleEngine
    /\ IdleBackoff
    /\ InitQuery
    /\ InitCustom
    /\ InitPreset

SpecRL == InitSpecRL /\ [][NextRL]_vars

\* the clock advances and a timer that is due fires
SpecRLFair ==
    /\ SpecRL
    /\ WF_vars(RLTick /\ UNCHANGED exceptRLTick)
    /\ \A c \in 1..MaxAcquirers : WF_vars(RLWake(c) /\ UNCHANGED exceptRL)

InitSpecAutopilot ==
    /\ now = 1
    /\ IdleTask
    /\ InitTM
    /\ IdleOrch
    /\ IdleRunner
    /\ IdlePolicy
    /\ IdleBreaker
    /\ IdleRetry
    /\ IdleLimiter
    /\ InitAutopilot
    /\ IdleEngine
    /\ IdleBackoff
    /\ InitQuery
    /\ InitCustom
    /\ InitPreset

SpecAutopilot == InitSpecAutopilot /\ [][NextAutopilot]_vars

InitSpecEngine ==
    /\ now = 1
    /\ IdleTask
    /\ InitTM
    /\ IdleOrch
    /\ IdleRunner
    /\ IdlePolicy
    /\ IdleBreaker
    /\ IdleRetry
    /\ IdleLimiter
    /\ IdleAutopilotRun
    /\ InitEngine
    /\ IdleBackoff
    /\ InitQuery
    /\ InitCustom
    /\ InitPreset

SpecEngine == InitSpecEngine /\ [][NextEngine]_vars

InitSpecBackoff ==
    /\ now = 1
    /\ IdleTask
    /\ InitTM
    /\ IdleOrch
    /\ IdleRunner
    /\ IdlePolicy
    /\ IdleBreaker
    /\ IdleRetry
    /\ IdleLimiter
    /\ IdleAutopilotRun
    /\ IdleEngine
    /\ IdleBackoff
    /\ InitQuery
    /\ InitCustom
    /\ InitPreset

SpecBackoff == InitSpecBackoff /\ [][NextBackoff]_vars

InitSpecQuery ==
    /\ now = 1
    /\ IdleTask
    /\ InitTM
    /\ IdleOrch
    /\ IdleRunner
    /\ IdlePolicy
    /\ IdleBreaker
    /\ IdleRetry
    /\ IdleLimiter
    /\ IdleAutopilotRun
    /\ IdleEngine
    /\ IdleBackoff
    /\ InitQuery
    /\ InitCustom
    /\ InitPreset

SpecQuery == InitSpecQuery /\ [][NextQuery]_vars

InitSpecCustom ==
    /\ now = 1
    /\ IdleTask
    /\ InitTM
    /\ IdleOrch
    /\ IdleRunner
    /\ IdlePolicy
    /\ IdleBreaker
    /\ IdleRetry
    /\ IdleLimiter
    /\ IdleAutopilotRun
    /\ IdleEngine
    /\ IdleBackoff
    /\ InitQuery
    /\ InitCustom
    /\ InitPreset

SpecCustom == InitSpecCustom /\ [][NextCustom]_vars

InitSpecPreset ==
    /\ now = 1
    /\ IdleTask
    /\ InitTM
    /\ IdleOrch
    /\ IdleRunner
    /\ IdlePolicy
    /\ IdleBreaker
    /\ IdleRetry
    /\ IdleLimiter
    /\ IdleAutopilotRun
    /\ IdleEngine
    /\ IdleBackoff
    /\ InitQuery
    /\ InitCustom
    /\ InitPreset

SpecPreset == InitSpecPreset /\ [][NextPreset]_vars

InitSpecCascade ==
    /\ now = 1
    /\ IdleTask
    /\ InitTM
    /\ IdleOrch
    /\ IdleRunner
    /\ IdlePolicy
    /\ IdleBreaker
    /\ IdleRetry
    /\ IdleLimiter
    /\ IdleAutopilotRun
    /\ IdleEngine
    /\ IdleBackoff
    /\ InitQuery
    /\ InitCustom
    /\ InitPreset

SpecCascade == InitSpecCascade /\ [][NextCascade]_vars

InitSpecReturn ==
    /\ now = 1
    /\ IdleTask
    /\ InitTM
    /\ (InitOrch /\ IdleRunner) \/ (IdleOrch /\ InitRunner)
    /\ IdlePolicy
    /\ IdleBreaker
    /\ IdleRetry
    /\ IdleLimiter
    /\ IdleAutopilotRun
    /\ IdleEngine
    /\ IdleBackoff
    /\ InitQuery
    /\ InitCustom
    /\ InitPreset

SpecReturn == InitSpecReturn /\ [][NextReturn]_vars

\* ---------------------------------------------------------------------
\* Claims about Task
\* ---------------------------------------------------------------------
\* The calls the state machine of the Task forbids.
IllegalCall(op, t) ==
    \/ op = "queue" /\ t.status # "pending"
    \/ op = "start" /\ t.status \notin {"pending", "queued"}
    \/ op = "complete" /\ t.status # "running"
    \/ op = "fail" /\ t.status # "running"
    \/ op = "cancel" /\ t.status \in {"completed", "failed", "cancelled"}
    \/ op = "retry" /\ (t.status # "failed" \/ t.retries >= t.maxRetries)

\* C1: a transition method called in a state where it is illegal fails with
\* an error and leaves every field of the task as it was before the call.
C1_IllegalTransitionFailsAndKeepsTask ==
    IllegalCall(taskCall.op, taskCall.pre) =>
        (taskCall.threw /\ task = taskCall.pre)

C1_Witness ==
    /\ taskCall.op = "cancel"
    /\ taskCall.pre.status = "completed"
    /\ taskCall.pre.children # <<>>
    /\ taskCall.threw

InFlight(c) ==
    calls[c].pc \in {"awaitInit", "awaitPlugin", "awaitStep", "awaitSummary"}

\* C3: at most one accepted runWorkflow invocation has not yet returned, and
\* a runWorkflow call made while another one is still executing is rejected
\* with the already-running error.
C3_SingleFlight ==
    [][ /\ Cardinality({c \in 1..MaxCalls : InFlight(c)'}) <= 1
        /\ \A c \in 1..MaxCalls :
              (/\ calls[c].pc = "idle"
               /\ calls'[c].pc # "idle"
               /\ \E d \in 1..MaxCalls : InFlight(d))
                 => (/\ calls'[c].pc = "rejected"
                     /\ calls'[c].errors = <<"already running">>) ]_vars

\* C6: every accepted run returns a structured result (status, summary and
\* error list), and when it returns the active-run flag of the orchestrator
\* is cleared.
C6_RunReturnsResultAndClearsFlag ==
    [][ \A c \in 1..MaxCalls :
          (calls[c].pc # "returned" /\ calls'[c].pc = "returned")
            => (/\ calls'[c].result.status \in {"completed", "failed", "cancelled"}
                /\ calls'[c].result.summary = calls[c].summary
                /\ calls'[c].result.errors = calls[c].errors
                /\ ~orch'.isRunning) ]_vars

\* ---------------------------------------------------------------------
\* Claims about the WorkflowRunner
\* ---------------------------------------------------------------------
\* the attempted steps whose plugin is 'observe' and which failed
FailedObserve(r) ==
    {i \in 1..Len(r.outcomes) : r.wf[r.attempted[i]] = "observe" /\ r.outcomes[i] # "ok"}

\* C4: when an 'observe' step fails (success:false, a throw or a missing
\* plugin) no later step is attempted, the result holds the step results up
\* to and including the failing step, and the run status is 'failed'.
C4_CriticalStepAborts ==
    (rrun.pc = "returned" /\ FailedObserve(rrun) # {}) =>
        LET f == CHOOSE i \in FailedObserve(rrun) :
                     \A j \in FailedObserve(rrun) : i <= j
        IN  /\ rrun.attempted = [i \in 1..f |-> i]
            /\ Cardinality(DOMAIN rdb.tasks) = f
            /\ Len(rrun.result.steps) = f
            /\ \A i \in 1..f : rrun.result.steps[i].plugin = rrun.wf[i]
            /\ rrun.result.steps[f].status = "failed"
            /\ rrun.result.status = "failed"
            /\ rdb.runs[rrun.runId].status = "failed"

C4_Witness ==
    /\ rrun.pc = "returned"
    /\ Len(rrun.wf) = 3
    /\ rrun.outcomes = <<"fail", "throw">>
    /\ rrun.wf[2] = "observe"

\* C5: when no 'observe' step fails every step is attempted once, in
\* declaration order, the run status is 'completed', stepsFailed is the number
\* of failed steps and stepsCompleted + stepsFailed is the number of results.
C5_NonCriticalFailuresContinue ==
    (rrun.pc = "returned" /\ FailedObserve(rrun) = {}) =>
        /\ rrun.attempted = [i \in 1..Len(rrun.wf) |-> i]
        /\ Len(rrun.result.steps) = Len(rrun.wf)
        /\ rrun.result.status = "completed"
        /\ rrun.result.summary.stepsFailed =
              Cardinality({i \in 1..Len(rrun.outcomes) : rrun.outcomes[i] # "ok"})
        /\ rrun.result.summary.stepsCompleted + rrun.result.summary.stepsFailed
              = Len(rrun.result.steps)

C5_Witness ==
    /\ rrun.pc = "returned"
    /\ rrun.wf = <<"observe", "analyze", "analyze">>
    /\ rrun.outcomes = <<"ok", "fail", "ok">>
    /\ rrun.result.summary.stepsFailed = 1

\* ---------------------------------------------------------------------
\* Claims about the TaskManager
\* ---------------------------------------------------------------------
RECURSIVE Descendants(_, _)
\* the tasks below task id in the parent / child tree
Descendants(m, id) ==
    IF id \notin DOMAIN m.tasks THEN {}
    ELSE LET kids == {m.tasks[id].children[i] : i \in 1..Len(m.tasks[id].children)}
         IN  kids \cup UNION {Descendants(m, k) : k \in kids}

\* C7: cancelRunTasks(R) cancels every non-terminal task of run R together
\* with all of its non-terminal descendants and nothing else, returns the
\* number of tasks it cancelled and raises no error.
C7_CancelRunCascade ==
    [][ tmCall'.op = "cancelRunTasks" =>
          LET roots == {id \in DOMAIN tm.tasks :
                          /\ tm.tasks[id].runId = tmCall'.arg
                          /\ ~isTerminal(tm.tasks[id])}
              below == UNION {Descendants(tm, r) : r \in roots}
              target == roots \cup {d \in below : d \in DOMAIN tm.tasks
                                                  /\ ~isTerminal(tm.tasks[d])}
          IN  /\ ~tmCall'.threw
              /\ \A id \in target : tm'.tasks[id].status = "cancelled"
              /\ \A id \in DOMAIN tm.tasks \ target : tm'.tasks[id] = tm.tasks[id]
              /\ tmCall'.ret = Cardinality(target) ]_vars

\* ---------------------------------------------------------------------
\* Claims about Policy
\* ---------------------------------------------------------------------
\* the rules of the policy whose condition holds for the evaluated call
MatchingRules(p, call) ==
    {i \in 1..Len(p.rules) :
        evaluateCondition(p.rules[i].condition,
            [role |-> call.role, toolName |-> call.toolName,
             params |-> call.params, timestamp |-> 0])}

\* rule i is preferred to rule j: higher priority, or the same priority and
\* inserted earlier
Preferred(p, i, j) ==
    \/ p.rules[i].priority > p.rules[j].priority
    \/ /\ p.rules[i].priority = p.rules[j].priority
       /\ p.rules[i].seq <= p.rules[j].seq

\* C8: an evaluation during which the rules did not change returns the
\* matching rule of highest priority and, among those of equal priority, the
\* one inserted first, however the rules were put in by the constructor,
\* addRule and removeRule; the result is a function of the policy and the call
\* alone, and without a matching rule (so with no rules at all) it is the
\* default action.
C8_HighestPriorityFirstInserted ==
    (pe.pc = "done" /\ ~pe.dirty) =>
        LET M == MatchingRules(policy, pe.call)
        IN  IF M = {}
              THEN /\ pe.result.matchedRule = <<>>
                   /\ pe.result.action = policy.defaultAction
              ELSE LET best == CHOOSE i \in M : \A j \in M : Preferred(policy, i, j)
                   IN  /\ \E i \in M : \A j \in M : Preferred(policy, i, j)
                       /\ pe.result.matchedRule = <<policy.rules[best]>>
                       /\ pe.result.action = policy.rules[best].action

C8_Witness ==
    /\ pe.pc = "done"
    /\ ~pe.dirty
    /\ Len(policy.rules) = 3
    /\ \E i, j \in MatchingRules(policy, pe.call) :
          /\ policy.rules[i].priority = policy.rules[j].priority
          /\ policy.rules[i].priority = 2
          /\ policy.rules[i].action # policy.rules[j].action
          /\ policy.rules[i].seq < policy.rules[j].seq
          /\ policy.rules[i].seq > 1
          /\ pe.result.matchedRule = <<policy.rules[i]>>

\* C9: allowed is true exactly when the deciding action is 'allow'; a matched
\* rule decides with its own action, and without a matched rule the result
\* carries the default action, 'deny' when none was configured.
C9_AllowedIffAllow ==
    pe.pc = "done" =>
        /\ pe.result.allowed = (pe.result.action = "allow")
        /\ pe.result.matchedRule # <<>> =>
              pe.result.action = pe.result.matchedRule[1].action
        /\ pe.result.matchedRule = <<>> =>
              pe.result.action = (IF policy.cfgDefault = NULL THEN "deny"
                                  ELSE policy.cfgDefault)
        /\ (~pe.dirty /\ MatchingRules(policy, pe.call) = {}) =>
              pe.result.matchedRule = <<>>

C9_Witness ==
    /\ pe.pc = "done"
    /\ pe.result.matchedRule # <<>>
    /\ pe.result.action = "require_approval"
    /\ ~pe.result.allowed
    /\ policy.cfgDefault = "allow"

\* ---------------------------------------------------------------------
\* Claims about the CircuitBreaker
\* ---------------------------------------------------------------------
\* C10: a closed breaker has fewer failures than failureThreshold, and as
\* many as guarded calls failed since the last success; it opens exactly in
\* the step in which the failureThreshold-th consecutive failure arrives, and
\* a success while closed sets the counter to zero.
C10_OpensAtThreshold ==
    /\ [](cb.state = "closed" =>
            /\ cb.failures < cbCfg.failureThreshold
            /\ cb.failures = cbConsec)
    /\ [][ /\ (cb.state = "closed" /\ cb'.state = "open") <=>
                (cb.state = "closed" /\ cbLast' = "failure"
                    /\ cbConsec' = cbCfg.failureThreshold)
           /\ (cb.state = "closed" /\ cbLast' = "success") =>
                (cb'.failures = 0 /\ cb'.state = "closed") ]_vars

C10_Witness ==
    /\ cb.state = "open"
    /\ cbLast = "failure"
    /\ cbCfg.failureThreshold = 3
    /\ cb.failures = 3
    /\ cbConsec = 3

\* the step is a call of execute
IsExecuteStep == cbLast' \in {"rejected", "admitted"}

\* C11: execute on an open breaker, before resetTimeoutMs has passed since
\* the last failure, is rejected without a call of fn, and leaves the state,
\* the failure counter and the last-failure time as they were.
C11_OpenRejectsWithoutCalling ==
    [][ (IsExecuteStep /\ cb.state = "open"
            /\ now - cb.lastFailureTime < cbCfg.resetTimeoutMs) =>
          /\ cbLast' = "rejected"
          /\ cbInFlight' = cbInFlight
          /\ cb'.state = "open"
          /\ cb'.failures = cb.failures
          /\ cb'.lastFailureTime = cb.lastFailureTime ]_vars

C11_Witness ==
    /\ cbLast = "rejected"
    /\ cb.state = "open"
    /\ cbCfg.resetTimeoutMs = 2
    /\ now - cb.lastFailureTime = 1
    /\ cbInFlight = 1

\* C12: execute on an open breaker, once resetTimeoutMs has passed since the
\* last failure, makes it half-open and calls fn; a half-open breaker is
\* closed, with the failure counter at zero, by the success that brings the
\* successes seen since it became half-open to halfOpenRequests and by no
\* other settled call; a failure while half-open opens it and sets the
\* last-failure time to the time of the failure.
C12_HalfOpenProbe ==
    [][ /\ (IsExecuteStep /\ cb.state = "open"
              /\ now - cb.lastFailureTime >= cbCfg.resetTimeoutMs) =>
                /\ cbLast' = "admitted"
                /\ cb'.state = "half_open"
                /\ cbInFlight' = cbInFlight + 1
        /\ (cb.state = "half_open" /\ cbLast' = "success") =>
                /\ (cb'.state = "closed") <=> (cbProbes' = cbCfg.halfOpenRequests)
                /\ cb'.state = "closed" => cb'.failures = 0
                /\ cb'.state # "closed" =>
                     (cb'.state = "half_open" /\ cbProbes' < cbCfg.halfOpenRequests)
        /\ (cb.state = "half_open" /\ cb'.state = "closed" /\ cbLast' # "reset") =>
                cbLast' = "success"
        /\ (cb.state = "half_open" /\ cbLast' = "failure") =>
                /\ cb'.state = "open"
                /\ cb'.lastFailureTime = now ]_vars

C12_Witness ==
    /\ cb.state = "closed"
    /\ cbLast = "success"
    /\ cbProbes = 2
    /\ cbCfg.halfOpenRequests = 2
    /\ cb.lastFailureTime > 0

\* ---------------------------------------------------------------------
\* Claims about withRetry
\* ---------------------------------------------------------------------
RetrySettled == rt.pc \in {"returned", "thrown"}

\* the calls of fn that failed with an error the predicate rejects
RejectedByPredicate ==
    {i \in 1..Len(rt.outcomes) :
        /\ rt.outcomes[i] # "ok"
        /\ rtOpts.hasPredicate
        /\ rt.outcomes[i] \notin rtOpts.retryableErrors}

\* C13: fn is called at most maxAttempts times; withRetry returns the value
\* of the first call that succeeds and calls fn no more; when maxAttempts
\* calls failed with retryable errors fn was called exactly maxAttempts times
\* and the error of the last call is thrown; every sleep lies between two
\* calls of fn.
C13_AtMostMaxAttempts ==
    /\ Len(rt.outcomes) <= rtOpts.maxAttempts
    /\ \A i \in 1..Len(rt.outcomes) :
          rt.outcomes[i] = "ok" => (i = Len(rt.outcomes) /\ rt.pc = "returned")
    /\ rt.pc = "returned" =>
          (rt.outcomes[Len(rt.outcomes)] = "ok" /\ rt.value = "out1")
    /\ (rt.pc = "thrown" /\ RejectedByPredicate = {}) =>
          /\ Len(rt.outcomes) = rtOpts.maxAttempts
          /\ rt.thrown = rt.outcomes[Len(rt.outcomes)]
    /\ rt.pc = "sleeping" => Len(rt.outcomes) < rtOpts.maxAttempts
    /\ RetrySettled => Len(rt.sleeps) = Len(rt.outcomes) - 1
    /\ ~RetrySettled /\ rt.pc # "sleeping" => Len(rt.sleeps) = Len(rt.outcomes)

C13_Witness ==
    /\ rt.pc = "thrown"
    /\ rtOpts.maxAttempts = 3
    /\ rt.outcomes = <<"e1", "e2", "e1">>
    /\ rt.thrown = "e1"
    /\ Len(rt.sleeps) = 2

\* C14: an error for which the retryableErrors predicate returns false is
\* thrown at once: it is the error of the last call of fn, and no sleep
\* follows that call.
C14_NonRetryableThrownAtOnce ==
    \A i \in RejectedByPredicate :
        /\ i = Len(rt.outcomes)
        /\ rt.pc = "thrown"
        /\ rt.thrown = rt.outcomes[i]
        /\ Len(rt.sleeps) = i - 1

C14_Witness ==
    /\ rt.pc = "thrown"
    /\ rtOpts.maxAttempts = 3
    /\ rtOpts.retryableErrors = {"e1"}
    /\ rt.outcomes = <<"e1", "e2">>
    /\ rt.thrown = "e2"
    /\ Len(rt.sleeps) = 1

\* ---------------------------------------------------------------------
\* Claims about the RateLimiter
\* ---------------------------------------------------------------------
\* the recorded entries that lie within the last windowMs
InWindow(l, clock) ==
    {i \in 1..Len(l.requests) : clock - l.requests[i] < l.windowMs}

\* C15: the number of recorded entries within the last windowMs never
\* exceeds maxRequests, whatever the interleaving of the acquire calls.
C15_WindowNeverOverflows ==
    Cardinality(InWindow(rl, now)) <= rl.maxRequests

\* ---------------------------------------------------------------------
\* Claims about runAutopilot
\* ---------------------------------------------------------------------
\* the actions runAutopilot executed: marked 'executed' or listed
ExecutedActions ==
    {i \in 1..Len(ap.actions) :
        \/ ap.actions[i].status = "executed"
        \/ \E k \in 1..Len(ap.actionsExecuted) : ap.actionsExecuted[k] = i}

\* the effective dry-run flag of the run: dryRun && !approve
AutopilotDryRun == ap.runner.dryRun /\ ~ap.runner.approve

\* C16: an action is executed only when the run is not a dry run and either
\* approve is set or promptForApproval granted that action; without approve
\* and interactive the run is a dry run.
C16_ExecutionIsGated ==
    /\ \A i \in ExecutedActions :
          /\ ~AutopilotDryRun
          /\ Truthy(ap.options.approve) \/ i \in ap.granted
    /\ (ap.pc # "idle" /\ ~Truthy(ap.options.approve)
            /\ ~Truthy(ap.options.interactive)) =>
          (ap.options.dryRun = "true" /\ AutopilotDryRun)

\* ---------------------------------------------------------------------
\* Claims about the terminal states of a Task
\* ---------------------------------------------------------------------
ExactlyOneOfOutputAndError(t) == (t.output # NULL) # (t.error # NULL)

\* C17 as stated: in every terminal state (completed, failed, cancelled)
\* exactly one of output and error is non-null.
C17_ExactlyOneInTerminal ==
    isTerminal(task) => ExactlyOneOfOutputAndError(task)

\* C17 as amended: in every completed or failed state, fail -> retry cycles
\* included, exactly one of output and error is non-null; in a cancelled state
\* neither is set.
C17_ExactlyOneWhenCompletedOrFailed ==
    /\ task.status \in {"completed", "failed"} =>
          ExactlyOneOfOutputAndError(task)
    /\ task.status = "cancelled" =>
          (task.output = NULL /\ task.error = NULL)

C17_Witness ==
    /\ task.status = "completed"
    /\ task.retries > 0
    /\ task.output # NULL
    /\ task.error = NULL

\* C18: completed and cancelled are absorbing: no method call changes the
\* status of a completed or cancelled task; a call that takes a task out of
\* failed is retry(), and it leaves the task pending.
C18_AbsorbingStatuses ==
    /\ taskCall.pre.status \in {"completed", "cancelled"} =>
          task.status = taskCall.pre.status
    /\ (taskCall.pre.status = "failed" /\ task.status # "failed") =>
          (taskCall.op = "retry" /\ task.status = "pending")

C18_Witness ==
    /\ taskCall.pre.status = "cancelled"
    /\ taskCall.op \in {"queue", "start", "complete", "fail", "retry"}
    /\ taskCall.threw
    /\ task.status = "cancelled"

\* ---------------------------------------------------------------------
\* Claims about Orchestrator.cancel
\* ---------------------------------------------------------------------
\* the step is cancel() acting on the active run r
CancelsRun(r) ==
    /\ orch.isRunning
    /\ orch.currentRunId = r
    /\ ~orch'.isRunning
    /\ calls' = calls

\* C19: cancel() on an orchestrator with an active run leaves every task of
\* that run terminal, clears the active-run flag and the current run id and
\* persists the run as 'cancelled'; the persisted status stays 'cancelled'
\* from then on, also when the runWorkflow invocation in flight returns.
C19_CancelledRunStaysCancelled ==
    [][ \A r \in RunIds :
          /\ CancelsRun(r) =>
                /\ \A id \in DOMAIN tm'.tasks :
                      tm'.tasks[id].runId = r => isTerminal(tm'.tasks[id])
                /\ ~orch'.isRunning
                /\ orch'.currentRunId = NoId
                /\ dbRuns'[r].status = "cancelled"
          /\ (r \in DOMAIN dbRuns /\ dbRuns[r].status = "cancelled") =>
                dbRuns'[r].status = "cancelled" ]_vars

\* ---------------------------------------------------------------------
\* Claims about the PolicyEngine
\* ---------------------------------------------------------------------
\* the step is a call of evaluate or checkPermission
EngineCalled == ec.pc # "await" /\ ec'.pc = "await"

\* the context Policy.evaluate is given by the call
EngineCtx(c) ==
    [role |-> c.agent.role, toolName |-> c.call.toolName,
     params |-> c.call.params, timestamp |-> now]

\* C20: evaluate answers with the policy assigned to the agent when there is
\* one, otherwise with the default policy; with neither it denies in strict
\* mode, which is the mode when none is configured, and allows otherwise;
\* checkPermission returns the allowed flag of that evaluation.
C20_EngineResolvesPolicy ==
    [][ /\ EngineCalled =>
             LET a == ec'.agent.id
             IN  IF a \in DOMAIN engine.agentPolicies
                   THEN ec'.result = PolicyEvaluateFrom(
                            engine.policies[engine.agentPolicies[a]].policy,
                            EngineCtx(ec'), 1)
                 ELSE IF engine.defaultPolicy # <<>>
                   THEN ec'.result = PolicyEvaluateFrom(
                            engine.defaultPolicy[1].policy, EngineCtx(ec'), 1)
                 ELSE IF engine.cfgStrictMode \in {UndefinedStrictMode, "true"}
                   THEN ~ec'.result.allowed /\ ec'.result.action = "deny"
                 ELSE ec'.result.allowed
        /\ (ec.pc = "await" /\ ec'.pc = "returned") =>
             IF ec.op = "checkPermission"
               THEN ec'.retAllowed = ec.result.allowed
               ELSE ec'.retResult = ec.result ]_vars

\* checkPermission has returned for an agent whose assigned policy and the
\* default policy give different answers
C20_Witness ==
    /\ ec.pc = "returned"
    /\ ec.op = "checkPermission"
    /\ ec.agent.id \in DOMAIN engine.agentPolicies
    /\ engine.defaultPolicy # <<>>
    /\ ec.retAllowed
    /\ ~PolicyEvaluateFrom(engine.defaultPolicy[1].policy, EngineCtx(ec), 1).allowed

\* some agent is assigned policy id
PolicyInUse(e, id) ==
    \E a \in DOMAIN e.agentPolicies : e.agentPolicies[a] = id

\* C21: unregisterPolicy(id) returns false and removes nothing while an agent
\* is assigned policy id; every agent-to-policy assignment refers to a policy
\* that is registered.
C21_NoOrphanedAssignment ==
    /\ \A id \in PolicyIds :
          PolicyInUse(engine, id) =>
             unregisterPolicy(engine, id) = [e |-> engine, ret |-> FALSE]
    /\ \A a \in DOMAIN engine.agentPolicies :
          engine.agentPolicies[a] \in DOMAIN engine.policies

C21_Witness ==
    /\ PolicyInUse(engine, "p1")
    /\ DOMAIN engine.policies = {"p1"}
    /\ DOMAIN engine.agentPolicies = {"a1"}

\* the failed tasks of run r that can still be retried
Retryable(m, r) ==
    {id \in DOMAIN m.tasks :
        /\ m.tasks[id].runId = r
        /\ m.tasks[id].status = "failed"
        /\ m.tasks[id].retries < m.tasks[id].maxRetries}

\* C22: retryFailedTasks(R) takes exactly the failed tasks of run R with
\* retries < maxRetries to pending with one more retry, returns their number,
\* raises nothing, and leaves every other task as it was.
C22_RetryFailedTasks ==
    [][ tmCall'.op = "retryFailedTasks" =>
          LET target == Retryable(tm, tmCall'.arg)
          IN  /\ ~tmCall'.threw
              /\ tmCall'.ret = Cardinality(target)
              /\ DOMAIN tm'.tasks = DOMAIN tm.tasks
              /\ \A id \in target :
                    /\ tm'.tasks[id].status = "pending"
                    /\ tm'.tasks[id].retries = tm.tasks[id].retries + 1
              /\ \A id \in DOMAIN tm.tasks \ target :
                    tm'.tasks[id] = tm.tasks[id] ]_vars

\* retryFailedTasks has retried one task and passed over a failed task that
\* is out of retries and a task of another run
C22_Witness ==
    /\ tmCall.op = "retryFailedTasks"
    /\ tmCall.ret = 1
    /\ \E id \in DOMAIN tm.tasks :
          /\ tm.tasks[id].runId = tmCall.arg
          /\ tm.tasks[id].status = "pending"
          /\ tm.tasks[id].retries = 1
    /\ \E id \in DOMAIN tm.tasks :
          /\ tm.tasks[id].status = "failed"
          /\ tm.tasks[id].retries = tm.tasks[id].maxRetries

\* the tasks of the run of invocation c, in the order of their creation
RunTasks(c) == getTasksByRun(tm, calls[c].runId)

\* C23: within one run the steps execute one after another in declaration
\* order: the i-th task of the run is the task of step i, every task but the
\* last one created is terminal, and at most one task of the run is running.
C23_StepsRunInOrder ==
    \A c \in 1..MaxCalls :
        calls[c].runId # NoId =>
            LET ids == RunTasks(c)
                steps == OrchWorkflows[calls[c].wf]
            IN  /\ Len(ids) <= Len(steps)
                /\ \A i \in 1..Len(ids) :
                      /\ tm.tasks[ids[i]].type = steps[i]
                      /\ i < Len(ids) => isTerminal(tm.tasks[ids[i]])
                      /\ \A j \in 1..Len(ids) : i < j => ids[i] < ids[j]
                /\ Cardinality({i \in 1..Len(ids) :
                                   tm.tasks[ids[i]].status = "running"}) <= 1

C23_Witness ==
    \E c \in 1..MaxCalls :
        /\ calls[c].pc = "awaitPlugin"
        /\ Len(RunTasks(c)) = 2
        /\ tm.tasks[RunTasks(c)[1]].status = "completed"
        /\ tm.tasks[RunTasks(c)[2]].status = "running"

\* the oldest recorded timestamp that lies within the window
OldestInWindow(l, clock) ==
    l.requests[CHOOSE i \in InWindow(l, clock) :
                   \A j \in InWindow(l, clock) : i <= j]

\* C24: with maxRequests = N an acquire() made while fewer than N entries lie
\* in the window, as the first N on a fresh limiter are, returns without
\* waiting; one made while N entries lie in the window waits until the oldest
\* of them is windowMs old, does not return before that, and returns once the
\* clock has got there.
C24_AcquireWaitsForOldest ==
    /\ [][ \A c \in 1..MaxAcquirers :
             LET inWindow == Cardinality(InWindow(rl, now))
             IN  /\ rlLast'.op = "acquired" => inWindow < rl.maxRequests
                 /\ (rlCalls[c].pc = "idle" /\ rlCalls'[c].pc = "sleeping") =>
                       /\ inWindow >= rl.maxRequests
                       /\ rlCalls'[c].wakeAt =
                             OldestInWindow(rl, now) + rl.windowMs
                 /\ (rlCalls[c].pc = "sleeping" /\ rlCalls'[c].pc = "idle") =>
                       /\ now >= rlCalls[c].wakeAt
                       /\ rl'.requests[Len(rl'.requests)] = now ]_vars
    /\ \A c \in 1..MaxAcquirers :
          (rlCalls[c].pc = "sleeping" /\ rlCalls[c].wakeAt <= MaxTime)
              ~> (rlCalls[c].pc = "idle")

\* the acquire after the first N has waited and returned
C24_Witness ==
    /\ rlLast.op = "resumed"
    /\ rl.maxRequests = 2
    /\ rl.windowMs = 2
    /\ rl.requests = <<3>>

\* ---------------------------------------------------------------------
\* Claims about calculateBackoff
\* ---------------------------------------------------------------------
\* baseDelayMs * multiplier^(n-1) of the last call
BackoffBase ==
    bo.call.baseDelayMs
        * Pow(IF bo.call.multiplier = UndefinedOption THEN 2
              ELSE bo.call.multiplier, bo.call.attempt - 1)

\* C25: the delay is baseDelayMs * multiplier^(n-1), moved by at most 10% of
\* that value up or down and then capped at maxDelayMs: it never exceeds
\* maxDelayMs, and for baseDelayMs = 1000, multiplier = 2, maxDelayMs = 30000
\* and attempt 5 it lies between 14400 and 17600.
C25_BackoffWithinJitterAndCap ==
    bo.pc = "returned" =>
        /\ bo.ret <= bo.call.maxDelayMs
        /\ bo.ret < bo.call.maxDelayMs =>
              /\ 10 * (bo.ret - BackoffBase) <= BackoffBase
              /\ 10 * (BackoffBase - bo.ret) <= BackoffBase
        /\ bo.ret = bo.call.maxDelayMs =>
              10 * (bo.call.maxDelayMs - BackoffBase) <= BackoffBase
        /\ (/\ bo.call.baseDelayMs = 1000
            /\ bo.call.multiplier \in {2, UndefinedOption}
            /\ bo.call.maxDelayMs = 30000
            /\ bo.call.attempt = 5) =>
              (14400 <= bo.ret /\ bo.ret <= 17600)

C25_Witness ==
    /\ bo.pc = "returned"
    /\ bo.call.baseDelayMs = 1000
    /\ bo.call.multiplier = 2
    /\ bo.call.maxDelayMs = 30000
    /\ bo.call.attempt = 5
    /\ bo.ret = 14400

\* the step is runWorkflow invocation c being rejected
Rejected(c) == calls[c].pc = "idle" /\ calls'[c].pc = "rejected"

\* C26: a rejected runWorkflow call has no side effect: rejected because a
\* run is active, it creates no run record and leaves the active run id and
\* the flag as they are; rejected because the workflow is unknown, on an idle
\* orchestrator, it creates no run record and the orchestrator stays idle.
C26_RejectedCallHasNoEffect ==
    [][ \A c \in 1..MaxCalls :
          Rejected(c) =>
             /\ dbRuns' = dbRuns
             /\ orch' = orch
             /\ tm' = tm
             /\ calls'[c].errors = <<"already running">> =>
                   (orch.isRunning /\ orch'.currentRunId = orch.currentRunId)
             /\ calls'[c].errors = <<"not found">> =>
                   (/\ calls'[c].wf \notin DOMAIN OrchWorkflows
                    /\ ~orch'.isRunning
                    /\ orch'.currentRunId = NoId) ]_vars

\* one call was rejected while a run was active and its run record is the
\* only one
C26_Witness ==
    /\ calls[2].pc = "rejected"
    /\ calls[2].errors = <<"already running">>
    /\ InFlight(1)
    /\ orch.isRunning
    /\ DOMAIN dbRuns = {calls[1].runId}

\* the step is a call of cancel()
CancelCalled == cancelCall'.n = cancelCall.n + 1

\* C27: cancel() on an orchestrator with no active run raises no error and
\* changes no task, no run record and no field of the orchestrator.
C27_CancelWhenIdleIsNoOp ==
    [][ (CancelCalled /\ (~orch.isRunning \/ orch.currentRunId = NoId)) =>
          /\ ~cancelCall'.threw
          /\ tm' = tm
          /\ dbRuns' = dbRuns
          /\ orch' = orch
          /\ calls' = calls ]_vars

\* cancel() was called twice for one run: the second call found nothing
\* running
C27_Witness ==
    /\ cancelCall.n = 2
    /\ ~cancelCall.threw
    /\ ~orch.isRunning
    /\ Cardinality(DOMAIN dbRuns) = 1
    /\ \A r \in DOMAIN dbRuns : dbRuns[r].status = "cancelled"

\* the entries of the two result lists that are about action i
ExecutedEntries(i) ==
    {k \in 1..Len(ap.actionsExecuted) : ap.actionsExecuted[k] = i}
SkippedEntries(i) ==
    {k \in 1..Len(ap.actionsSkipped) : ap.actionsSkipped[k][1] = i}

SkippedBecause(i, reason) ==
    \E k \in SkippedEntries(i) : ap.actionsSkipped[k][2] = reason

\* C28: once runAutopilot has returned, every action it found in status
\* 'proposed' is in exactly one of actionsExecuted and actionsSkipped; one
\* that was not approved (no approve option, no interactive approval) is
\* skipped as "Requires approval"; one rejected at the prompt is skipped as
\* "Rejected by user" and marked rejected; one whose execution threw is
\* marked failed, and the actions behind it are processed all the same.
C28_EveryProposedActionAccounted ==
    ap.pc = "returned" =>
        \A i \in 1..Len(ap.proposedActions) :
            ap.proposedActions[i].status = "proposed" =>
                /\ Cardinality(ExecutedEntries(i)) + Cardinality(SkippedEntries(i)) = 1
                /\ (~Truthy(ap.options.approve) /\ i \notin ap.granted
                        /\ i \notin ap.refused) =>
                      SkippedBecause(i, "Requires approval")
                /\ i \in ap.refused =>
                      (/\ SkippedBecause(i, "Rejected by user")
                       /\ ap.actions[i].status = "rejected")
                /\ i \in ap.threw =>
                      (/\ ap.actions[i].status = "failed"
                       /\ SkippedEntries(i) # {})

\* maxRequests minus the number of entries within the window, or 0
FreeInWindow(l, clock) ==
    LET free == l.maxRequests - Cardinality(InWindow(l, clock))
    IN  IF free > 0 THEN free ELSE 0

\* C29: remaining() returns maxRequests minus the number of entries recorded
\* within the last windowMs, never less than 0; it changes neither that
\* number nor what an acquire() made now or later finds after its cleanup;
\* after reset() remaining() is maxRequests.
C29_RemainingReportsWithoutEffect ==
    [][ /\ rlLast'.op = "remaining" =>
             /\ rlLast'.ret = FreeInWindow(rl, now)
             /\ rlLast'.ret >= 0
             /\ Cardinality(InWindow(rl', now)) = Cardinality(InWindow(rl, now))
             /\ \A t \in now..MaxTime : cleanup(rl', t) = cleanup(rl, t)
             /\ rlCalls' = rlCalls
        /\ rlLast'.op = "reset" =>
             remaining(rl', now).ret = rl.maxRequests ]_vars

\* remaining() was called with an entry that has aged out and one that has
\* not
C29_Witness ==
    /\ rlLast.op = "remaining"
    /\ rl.maxRequests = 2
    /\ rl.windowMs = 2
    /\ now = 3
    /\ rl.requests = <<2>>
    /\ rlLast.ret = 1

\* ---------------------------------------------------------------------
\* Claims about TaskManager.query
\* ---------------------------------------------------------------------
\* task t satisfies every filter that query q gives
Matches(q, t) ==
    /\ q.runId = UndefinedFilter \/ t.runId = q.runId
    /\ q.status = NULL \/ t.status = q.status
    /\ q.type = NULL \/ t.type = q.type
    /\ q.agentId = NULL \/ t.agentId = q.agentId
    /\ q.parentId = UndefinedFilter \/ t.parentId = q.parentId
    /\ q.priority = NULL \/ t.priority = q.priority

PriorityRank(p) ==
    IF p = "critical" THEN 0 ELSE IF p = "high" THEN 1
    ELSE IF p = "normal" THEN 2 ELSE 3

\* the place of task id in the order of insertion
InsertionIndex(id) == CHOOSE i \in 1..Len(tm.order) : tm.order[i] = id

\* task a comes before task b: by priority rank, then by creation time, then
\* by insertion
ComesBefore(a, b) ==
    LET ta == tm.tasks[a]
        tb == tm.tasks[b]
    IN  \/ PriorityRank(ta.priority) < PriorityRank(tb.priority)
        \/ /\ PriorityRank(ta.priority) = PriorityRank(tb.priority)
           /\ \/ ta.createdAt < tb.createdAt
              \/ /\ ta.createdAt = tb.createdAt
                 /\ InsertionIndex(a) < InsertionIndex(b)

\* C30: query returns exactly the tasks that satisfy all given filters, by
\* priority rank critical, high, normal, low, then by creation time
\* ascending, then in insertion order; a limit keeps the first entries of
\* that order.
C30_QueryFiltersAndOrders ==
    tq.pc = "returned" =>
        LET matching == {id \in DOMAIN tm.tasks : Matches(tq.q, tm.tasks[id])}
            returned == {tq.ret[i] : i \in 1..Len(tq.ret)}
        IN  /\ returned \subseteq matching
            /\ Cardinality(returned) = Len(tq.ret)
            /\ Len(tq.ret) =
                  IF tq.q.limit # 0 /\ tq.q.limit < Cardinality(matching)
                    THEN tq.q.limit ELSE Cardinality(matching)
            /\ \A i, j \in 1..Len(tq.ret) :
                  i < j => ComesBefore(tq.ret[i], tq.ret[j])
            /\ \A id \in matching \ returned :
                  \A i \in 1..Len(tq.ret) : ComesBefore(tq.ret[i], id)

\* a query with a limit returned the older of two tasks of one priority
C30_Witness ==
    /\ tq.pc = "returned"
    /\ tq.q.limit = 1
    /\ Len(tq.ret) = 1
    /\ \E id \in DOMAIN tm.tasks :
          /\ id # tq.ret[1]
          /\ Matches(tq.q, tm.tasks[id])
          /\ tm.tasks[id].priority = tm.tasks[tq.ret[1]].priority
          /\ tm.tasks[id].createdAt > tm.tasks[tq.ret[1]].createdAt

\* ---------------------------------------------------------------------
\* Claims about custom-field conditions
\* ---------------------------------------------------------------------
RelationalOperators == {"gt", "lt", "gte", "lte"}

\* params[field] is missing or not a number
ParamNotNumber ==
    \/ cc.condition.field = NULL
    \/ cc.condition.field \notin DOMAIN cc.params
    \/ cc.params[cc.condition.field].kind # "number"

\* C31: a custom-field condition with the operator gt, lt, gte or lte is
\* false whenever params[field] or the rule's expected value is missing or
\* not a number.
C31_NonNumericRelationalIsFalse ==
    ( /\ cc.pc = "returned"
      /\ cc.condition.operator \in RelationalOperators
      /\ ParamNotNumber \/ cc.condition.value.kind # "number" )
    => cc.ret = FALSE

\* the part of it about params[field]
C31_NonNumericParamIsFalse ==
    ( /\ cc.pc = "returned"
      /\ cc.condition.operator \in RelationalOperators
      /\ ParamNotNumber )
    => cc.ret = FALSE

\* ---------------------------------------------------------------------
\* Claims about the context of a step
\* ---------------------------------------------------------------------
\* C32: every plugin.execute call made by the runner receives a context
\* whose dryRun is (the runner's dryRun and not approve), whose runId is the
\* run's id and whose taskId is the id of the task created for that step.
C32_ContextOfEveryInvocation ==
    rrun.pc = "awaitExecute" =>
        /\ rrun.ctx.dryRun = (runner.dryRun /\ ~runner.approve)
        /\ rrun.ctx.runId = rrun.runId
        /\ rrun.ctx.runId \in DOMAIN rdb.runs
        /\ rrun.ctx.taskId \in DOMAIN rdb.tasks
        /\ rrun.ctx.taskId = Cardinality(DOMAIN rdb.tasks)
        /\ rdb.tasks[rrun.ctx.taskId].runId = rrun.runId
        /\ rdb.tasks[rrun.ctx.taskId].type = rrun.wf[rrun.step]
        /\ rdb.tasks[rrun.ctx.taskId].status = "running"

\* the second step of a run is invoked by a runner made with dryRun and
\* approve both true
C32_Witness ==
    /\ rrun.pc = "awaitExecute"
    /\ rrun.step = 2
    /\ runner.dryRun
    /\ runner.approve
    /\ ~rrun.ctx.dryRun

\* ---------------------------------------------------------------------
\* Claims about the retry count
\* ---------------------------------------------------------------------
\* this step is a call of retry() that returned normally
RetrySucceeds ==
    /\ taskCall' # taskCall
    /\ taskCall'.op = "retry"
    /\ ~taskCall'.threw

\* C33: a task's retry count equals the number of retry() calls that
\* succeeded on it: a successful retry() raises it by exactly one and clears
\* error, startedAt and completedAt, and fail() and every other call leave
\* it unchanged.
C33_RetryCountCountsRetries ==
    /\ [](task.retries = taskRetried)
    /\ [][ IF RetrySucceeds
             THEN /\ task'.retries = task.retries + 1
                  /\ task'.error = NULL
                  /\ task'.startedAt = NoTime
                  /\ task'.completedAt = NoTime
             ELSE task'.retries = task.retries ]_vars

\* a task failed a third time after two successful retries
C33_Witness ==
    /\ taskCall.op = "fail"
    /\ ~taskCall.threw
    /\ task.status = "failed"
    /\ task.retries = 2
    /\ taskRetried = 2

\* ---------------------------------------------------------------------
\* Claims about the stored record of a task
\* ---------------------------------------------------------------------
\* the row of the task agrees with the task
RowAgrees(id) ==
    /\ id \in DOMAIN tm.db
    /\ tm.db[id].status = tm.tasks[id].status
    /\ tm.db[id].retries = tm.tasks[id].retries
    /\ tm.db[id].error = tm.tasks[id].error
    /\ tm.db[id].agentId = tm.tasks[id].agentId
    /\ tm.db[id].startedAt = tm.tasks[id].startedAt
    /\ tm.db[id].completedAt = tm.tasks[id].completedAt

\* C34: after every TaskManager operation the stored record of each indexed
\* task agrees with the in-memory task on status, retries, error, agent,
\* startedAt and completedAt.
C34_StoredRecordMirrorsTask ==
    \A id \in DOMAIN tm.tasks : RowAgrees(id)

\* retryFailedTasks has just put back a task that an agent had started and
\* that had failed
C34_Witness ==
    /\ tmCall.op = "retryFailedTasks"
    /\ tmCall.ret = 1
    /\ \E id \in DOMAIN tm.tasks :
          /\ tm.tasks[id].status = "pending"
          /\ tm.tasks[id].retries = 1
          /\ tm.tasks[id].agentId = "a1"
          /\ tm.db[id].retries = 1
          /\ tm.db[id].startedAt = NoTime

\* ---------------------------------------------------------------------
\* Claims about the executor preset
\* ---------------------------------------------------------------------
\* the name has part in it, at some position
NameContains(name, part) ==
    \E i \in 1..Len(name) :
        /\ i + Len(part) - 1 <= Len(name)
        /\ \A k \in 1..Len(part) : name[i + k - 1] = part[k]

NameHasExecute == NameContains(pr.toolName, <<"e", "x", "e", "c", "u", "t", "e">>)

NameHasWebhookOrFileWrite ==
    \/ NameContains(pr.toolName, <<"w", "e", "b", "h", "o", "o", "k">>)
    \/ NameContains(pr.toolName, <<"f", "i", "l", "e", "_", "w", "r", "i", "t", "e">>)

\* C35: under the executor preset a name containing "execute" gets
\* require_approval and is not allowed, also when it contains "webhook" or
\* "file_write"; a name without "execute" that contains "webhook" or
\* "file_write" is allowed; every other name is denied.
C35_ExecutorPreset ==
    pr.pc = "returned" =>
        IF NameHasExecute
          THEN pr.result.action = "require_approval" /\ ~pr.result.allowed
        ELSE IF NameHasWebhookOrFileWrite
          THEN pr.result.action = "allow" /\ pr.result.allowed
        ELSE pr.result.action = "deny" /\ ~pr.result.allowed

\* a name with "execute" in it and "webhook" after it
C35_Witness ==
    /\ pr.pc = "returned"
    /\ pr.toolName = <<"e", "x", "e", "c", "u", "t", "e",
                       "w", "e", "b", "h", "o", "o", "k">>
    /\ pr.result.action = "require_approval"

\* ---------------------------------------------------------------------
\* Claims about the cascade of cancelTask
\* ---------------------------------------------------------------------
\* task d has task id above it: as its parent, or its parent's parent, ...
RECURSIVE HasAncestor(_, _)
HasAncestor(d, id) ==
    LET p == tm.tasks[d].parentId
    IN  /\ p \in DOMAIN tm.tasks
        /\ p = id \/ HasAncestor(p, id)

DescendantsOf(id) == {d \in DOMAIN tm.tasks : HasAncestor(d, id)}

\* this step is a cancelTask that returned normally
CancelTaskSucceeds ==
    /\ tm' # tm
    /\ tmCall'.op = "cancelTask"
    /\ ~tmCall'.threw

\* C36: after cancelTask(id) succeeds the task and every descendant of it in
\* the index are terminal, whatever the statuses of the tasks in between, and
\* the descendants that were terminal keep their status.
C36_CancelReachesEveryDescendant ==
    [][ CancelTaskSucceeds =>
          /\ isTerminal(tm'.tasks[tmCall'.arg])
          /\ \A d \in DescendantsOf(tmCall'.arg) :
                /\ isTerminal(tm'.tasks[d])
                /\ isTerminal(tm.tasks[d]) =>
                      tm'.tasks[d].status = tm.tasks[d].status ]_vars

\* task d hangs below task id by a chain of tasks none of which is terminal
RECURSIVE HasLiveChainTo(_, _)
HasLiveChainTo(d, id) ==
    LET p == tm.tasks[d].parentId
    IN  /\ p \in DOMAIN tm.tasks
        /\ p = id \/ (~isTerminal(tm.tasks[p]) /\ HasLiveChainTo(p, id))

\* what the cascade does reach: the descendants below which no terminal task
\* stands in between
C36_CancelReachesLiveChains ==
    [][ CancelTaskSucceeds =>
          /\ isTerminal(tm'.tasks[tmCall'.arg])
          /\ \A d \in DescendantsOf(tmCall'.arg) :
                /\ HasLiveChainTo(d, tmCall'.arg) => isTerminal(tm'.tasks[d])
                /\ isTerminal(tm.tasks[d]) =>
                      tm'.tasks[d].status = tm.tasks[d].status ]_vars

\* ---------------------------------------------------------------------
\* Claims about a run after cancel()
\* ---------------------------------------------------------------------
\* the tasks the manager holds for run r
TasksOfRun(m, r) == {id \in DOMAIN m.tasks : m.tasks[id].runId = r}

\* C37: once cancel() has returned for an active run, the runWorkflow
\* invocation of that run creates and starts no further task for it.
C37_NoTaskAfterCancel ==
    [][ \A r \in DOMAIN dbRuns :
           dbRuns[r].status = "cancelled" =>
              TasksOfRun(tm', r) = TasksOfRun(tm, r) ]_vars

\* ---------------------------------------------------------------------
\* Claims about the tasks of a run that returned
\* ---------------------------------------------------------------------
TerminalStatuses == {"completed", "failed", "cancelled"}

\* C38: when a workflow run returns, every task created for that run is in
\* a terminal status in memory and in storage, whatever the outcomes of
\* the steps and also when cancel() was called while a step was in flight.
C38_TasksTerminalAtReturn ==
    /\ \A c \in 1..MaxCalls :
          calls[c].pc = "returned" =>
             /\ \A id \in DOMAIN tm.tasks :
                   tm.tasks[id].runId = calls[c].runId =>
                      tm.tasks[id].status \in TerminalStatuses
             /\ \A id \in DOMAIN tm.db :
                   tm.db[id].runId = calls[c].runId =>
                      tm.db[id].status \in TerminalStatuses
    /\ rrun.pc = "returned" =>
          \A id \in DOMAIN rdb.tasks :
             rdb.tasks[id].runId = rrun.runId =>
                rdb.tasks[id].status \in TerminalStatuses

\* an Orchestrator run returned that cancel() had reached while its first
\* step was in flight and that went on to its second step
C38_Witness ==
    \E c \in 1..MaxCalls :
        /\ calls[c].pc = "returned"
        /\ \E i, j \in DOMAIN tm.tasks :
              /\ tm.tasks[i].runId = calls[c].runId
              /\ tm.tasks[j].runId = calls[c].runId
              /\ tm.db[i].status = "cancelled"
              /\ tm.db[j].status = "completed"

\* a WorkflowRunner run returned with a step that threw and a step that
\* completed
C38_WitnessRunner ==
    /\ rrun.pc = "returned"
    /\ \E i, j \in 1..Len(rrun.outcomes) :
          rrun.outcomes[i] = "throw" /\ rrun.outcomes[j] = "ok"

\* ---------------------------------------------------------------------
\* Claims about the trial calls of a half-open breaker
\* ---------------------------------------------------------------------
\* C39: while the breaker is half-open, the number of guarded functions in
\* flight that were admitted in half-open never exceeds halfOpenRequests.
C39_HalfOpenAdmitsLimitedTrials ==
    cb.state = "half_open" => cbTrials <= cbCfg.halfOpenRequests

====
